---- MODULE Spec2Model ----
(***************************************************************************)
(* Model of the URL work queue, the worker pool, the ingestion of          *)
(* documents and the delete / reindex lifecycle of service/rag_service.go  *)
(* (package service, RAGService) over the tables of migrations/init.sql.   *)
(*                                                                         *)
(* Granularity: one step per SQL statement.  Every statement runs in its   *)
(* own autocommit transaction, so a statement is atomic.  The claim        *)
(* statement of processURLQueue (UPDATE ... WHERE id = (SELECT ... FOR     *)
(* UPDATE SKIP LOCKED LIMIT 1) RETURNING) is one statement and one step:   *)
(* the row lock it takes is never held across two steps.                   *)
(*                                                                         *)
(* A statement issued through database/sql with a context that is already  *)
(* cancelled returns the context's error and has no effect.  fetchContent   *)
(* takes no context.  Calls made by the HTTP handlers use the request's    *)
(* context, which is never cancelled here.                                 *)
(*                                                                         *)
(* Serial ids: a sequence gives a fresh id to every inserted row; only the *)
(* identity of an id matters, so the values a conflicting upsert burns are *)
(* not counted.                                                            *)
(***************************************************************************)
EXTENDS Integers, Sequences, FiniteSets, TLC

\* ---------------------------------------------------------------- bounds
\* numWorkers argument of StartBackgroundWorkers
NumWorkers == 2
\* number of DeleteURL(ByID) / ReindexURL(ByID) calls in a behaviour
MaxApiCalls == 1
\* number of ProcessDocument and direct ProcessURL calls in a behaviour
MaxIngestCalls == 2

\* the non-empty URLs callers use
Urls == {"u1", "u2"}
EmptyURL == ""

Workers == 1..NumWorkers
\* the goroutine of an HTTP handler that calls the delete / reindex methods
API == 0
\* the goroutines of the handlers that call ProcessDocument
Inline == {-1, -2}
Threads == {API} \cup Workers \cup Inline
\* the thread of the client that calls the methods one after the other
Client == -1

\* ------------------------------------------------------------ error texts
NULL == "NULL"
nil == "nil"
ErrEmptyURL == "URL cannot be empty"
ErrQueue == "failed to queue URL: duplicate key value violates unique constraint"
ErrFetch == "failed to fetch URL"
ErrCanceled == "context canceled"
ErrNotFoundID == "failed to get URL for ID: sql: no rows in result set"
ErrNotFoundReindex == "failed to get URL for reprocessing: sql: no rows in result set"
ErrNotFoundURL == "URL not found in queue"
ErrEmptyContent == "content is empty after cleaning"
ErrForeignKey == "violates foreign key constraint"

Wrap(prefix, e) == prefix \o ": " \o e

\* ---------------------------------------------------------------- contents
\* A text is a sequence of pieces: a piece is a run of printable characters
\* (letters with single blanks inside, no period), or one of the characters
\* below.
SP == " "
TAB == "\t"
\* a control character other than newline and tab (below 32, or 127)
CTL == "<ctl>"
\* a byte sequence that is not valid UTF-8
BAD == "<bad>"

TextA == "Alice Smith attended Bob Jones"
TextB == "Alice Smith attended Carl Young"
\* a text without a capitalised word
TextPlain == "plain words only"

VARIABLES
    queue,      \* table url_queue: sequence of rows, row i has id i
    documents,  \* table documents: set of rows
    chunks,     \* table chunks: set of rows
    ctxDone,    \* the context given to StartBackgroundWorkers is cancelled
    pool,       \* StartBackgroundWorkers: program counter, loop index i, wg
    pc,         \* program counter of every thread
    queueID,    \* per thread: the queue id it works on (0: none)
    url,        \* per thread: the url it works on
    err,        \* per thread: the error ProcessURL / the call returns
    ret,        \* result of the last call that returned to a client
    claims,     \* history: per queue id, how often a worker claimed it
    apiCalls,   \* number of delete / reindex calls started
    docSeq,     \* documents_id_seq: the last id given to a document row
    nodes,      \* table knowledge_nodes: set of rows
    nodeSeq,    \* knowledge_nodes_id_seq
    edges,      \* table knowledge_edges: set of rows
    documentID, \* per thread: the local documentID (0: none)
    inl,        \* per ProcessDocument thread: the locals of the call
    ingestCalls,\* number of ProcessDocument / direct ProcessURL calls started
    apiOp,      \* the method the API thread runs, or ran last
    writes,     \* history: the tables the delete / reindex call has written, in order
    oldDoc,     \* history: id of the URL's document when the delete / reindex call began
    resp        \* GetKnowledgeGraph, Query: the locals of the call, then what it returned

vars == <<queue, documents, chunks, ctxDone, pool, pc, queueID, url, err, ret,
          claims, apiCalls, docSeq, nodes, nodeSeq, edges, documentID, inl,
          ingestCalls, apiOp, writes, oldDoc, resp>>

\* the knowledge graph tables and the locals of ProcessDocument
graphVars == <<nodes, nodeSeq, edges, inl, ingestCalls>>
\* what only the delete / reindex calls write
apiVars == <<apiCalls, apiOp, writes, oldDoc>>

\* ------------------------------------------------------------- url_queue
Ids == 1..Len(queue)

\* mutant: the status column defaults to 'processing'
NewItemProcessing(u) ==
    [url |-> u, status |-> "processing", error |-> NULL, retry_count |-> 0,
     created_at |-> Len(queue) + 1]

\* init.sql: url_queue row with the column defaults
NewItem(u) ==
    [url |-> u, status |-> "pending", error |-> NULL, retry_count |-> 0,
     created_at |-> Len(queue) + 1]

\* mutant: the unique index leaves out the rows marked deleted
UrlQueuedNotDeleted(u) == \E i \in Ids : queue[i].url = u /\ queue[i].status # "deleted"

\* init.sql: CREATE UNIQUE INDEX idx_url_queue_url_unique ON url_queue(url)
UrlQueued(u) == \E i \in Ids : queue[i].url = u

\* UPDATE url_queue SET status = s WHERE url = u
SetStatusByURL(q, u, s) ==
    [i \in 1..Len(q) |-> IF q[i].url = u THEN [q[i] EXCEPT !.status = s] ELSE q[i]]

\* UPDATE url_queue SET status = 'failed', error = e WHERE url = u
SetFailedByURL(q, u, e) ==
    [i \in 1..Len(q) |->
        IF q[i].url = u THEN [q[i] EXCEPT !.status = "failed", !.error = e] ELSE q[i]]

\* mutant: the statements ignore the cancellation of the context
LiveIgnoringCtx(t) == TRUE

\* a statement issued by thread t takes effect: its context is not cancelled
Live(t) == t \notin Workers \/ ~ctxDone

\* mutant: the claim's WHERE clause also matches rows in 'processing'
PendingOrProcessing == {i \in Ids : queue[i].status \in {"pending", "processing"}}

Pending == {i \in Ids : queue[i].status = "pending"}

\* mutant: ORDER BY created_at DESC
NewestPending ==
    CHOOSE i \in Pending : \A j \in Pending : queue[i].created_at >= queue[j].created_at

\* SELECT id FROM url_queue WHERE status = 'pending' ORDER BY created_at ASC LIMIT 1
OldestPending ==
    CHOOSE i \in Pending : \A j \in Pending : queue[i].created_at <= queue[j].created_at

\* ------------------------------------------------------ cleaning of content
RECURSIVE SelectPieces(_, _)
SelectPieces(s, keep) ==
    IF s = << >> THEN << >>
    ELSE IF Head(s) \in keep
         THEN SelectPieces(Tail(s), keep)
         ELSE <<Head(s)>> \o SelectPieces(Tail(s), keep)

\* strings.TrimSpace: leading and trailing white space is cut
Whitespace == {SP, TAB}

RECURSIVE TrimLeft(_)
TrimLeft(s) ==
    IF s # << >> /\ Head(s) \in Whitespace THEN TrimLeft(Tail(s)) ELSE s

RECURSIVE TrimRight(_)
TrimRight(s) ==
    IF s # << >> /\ s[Len(s)] \in Whitespace
    THEN TrimRight(SubSeq(s, 1, Len(s) - 1))
    ELSE s

\* mutant: the cleaned text is not trimmed
NoTrimSpace(s) == s

TrimSpace(s) == TrimRight(TrimLeft(s))

\* lines 388-404: invalid UTF-8 is removed, then the control characters
\* other than newline and tab, then the text is trimmed
cleanContent(content) ==
    TrimSpace(SelectPieces(SelectPieces(content, {BAD}), {CTL}))

\* lines 406-444: a vector that generateEmbedding computed from the words of
\* the content.  No statement of the store reads a stored vector but the one
\* of Query: the tables record of a vector the text it was computed from
VectorOf(content) == <<"vector of", content>>

\* ----------------------------------------------------------- chunkDocument
\* a period; the word pieces of a text hold none
DOT == "."

\* long runs of words of a page (no period inside), named by their length
Run400 == "a run of 400 characters"
Run600 == "a run of 600 characters"
Run599 == "a run of 599 characters"
Run1200 == "a run of 1200 characters"

\* the number of bytes of a piece
Width(p) ==
    CASE p \in {SP, TAB, DOT} -> 1
      [] p = TextA -> 30
      [] p = TextB -> 31
      [] p = TextPlain -> 16
      [] p = Run400 -> 400
      [] p = Run600 -> 600
      [] p = Run599 -> 599
      [] p = Run1200 -> 1200

\* len(s): the number of bytes of a text
RECURSIVE len(_)
len(s) == IF s = << >> THEN 0 ELSE Width(Head(s)) + len(Tail(s))

\* s[off:], off being the offset of a piece of s
RECURSIVE From(_, _)
From(s, off) ==
    IF off <= 0 \/ s = << >> THEN s ELSE From(Tail(s), off - Width(Head(s)))

\* s[:off]
RECURSIVE Upto(_, _)
Upto(s, off) ==
    IF s = << >> \/ off < Width(Head(s)) THEN << >>
    ELSE <<Head(s)>> \o Upto(Tail(s), off - Width(Head(s)))

\* s[from:to]; Go panics when from > to: the slice is then taken as empty
Slice(s, from, to) == IF from > to THEN << >> ELSE From(Upto(s, to), from)

\* the offsets in s at which sub occurs.  A text that is searched for begins
\* and ends with a word piece, and no word piece occurs inside another one:
\* it occurs only where its pieces occur one after the other
Occurrences(s, sub) ==
    {len(SubSeq(s, 1, k)) : k \in {j \in 0..(Len(s) - Len(sub)) :
                                      SubSeq(s, j + 1, j + Len(sub)) = sub}}

Min(S) == CHOOSE x \in S : \A y \in S : x <= y
Max(S) == CHOOSE x \in S : \A y \in S : x >= y

\* strings.Index(s, sub)
Index(s, sub) == IF Occurrences(s, sub) = {} THEN -1 ELSE Min(Occurrences(s, sub))

\* strings.LastIndex(s, sub)
LastIndex(s, sub) == IF Occurrences(s, sub) = {} THEN -1 ELSE Max(Occurrences(s, sub))

\* strings.Split(s, "."): the texts between the periods
RECURSIVE Split(_)
Split(s) ==
    IF \A k \in 1..Len(s) : s[k] # DOT THEN <<s>>
    ELSE LET k == Min({j \in 1..Len(s) : s[j] = DOT})
         IN  <<SubSeq(s, 1, k - 1)>> \o Split(SubSeq(s, k + 1, Len(s)))

\* line 467: the size a chunk stays below
ChunkLimit == 1000

\* mutant: the current chunk is dropped when the next sentence does not fit
SealedDropped(st, content, sentenceStart) == st.chunks

\* lines 473-489: the current chunk is sealed when the sentence found at
\* sentenceStart does not fit into it
Sealed(st, content, sentenceStart) ==
    IF st.currentChunk = << >> THEN st.chunks
    ELSE LET found == LastIndex(Upto(content, sentenceStart), st.currentChunk)
             chunkEnd == IF found = -1 THEN sentenceStart
                         ELSE found + len(st.currentChunk)
         IN  Append(st.chunks, [Content |-> st.currentChunk,
                                ChunkIndex |-> Len(st.chunks),
                                StartPosition |-> st.currentStart,
                                EndPosition |-> chunkEnd])

\* lines 461-465: the sentence is searched for from the start of the current chunk
SentenceStart(st, content, sentence) ==
    LET found == Index(From(content, st.currentStart), sentence)
    IN  (IF found = -1 THEN 0 ELSE found) + st.currentStart

\* lines 454-493: one iteration of the loop over the sentences
OneSentence(st, content, raw) ==
    LET sentence == TrimSpace(raw)
        sentenceStart == SentenceStart(st, content, sentence)
    IN  IF sentence = << >> THEN st
        ELSE IF len(st.currentChunk) + len(sentence) < ChunkLimit
        THEN [st EXCEPT !.currentChunk =
                 IF @ = << >> THEN sentence ELSE @ \o <<DOT, SP>> \o sentence]
        ELSE [chunks |-> Sealed(st, content, sentenceStart),
              currentChunk |-> sentence,
              currentStart |-> sentenceStart]

RECURSIVE Sentences(_, _, _)
Sentences(st, content, sentences) ==
    IF sentences = << >> THEN st
    ELSE Sentences(OneSentence(st, content, Head(sentences)), content, Tail(sentences))

\* lines 495-510: the last chunk
LastChunk(st, content) ==
    IF st.currentChunk = << >> THEN st.chunks
    ELSE LET found == LastIndex(From(content, st.currentStart), st.currentChunk)
             chunkEnd == IF found = -1 THEN len(content)
                         ELSE found + st.currentStart + len(st.currentChunk)
         IN  Append(st.chunks, [Content |-> st.currentChunk,
                                ChunkIndex |-> Len(st.chunks),
                                StartPosition |-> st.currentStart,
                                EndPosition |-> chunkEnd])

\* lines 446-510: the chunks of a content, in the order of their index
chunkDocument(content) ==
    LastChunk(Sentences([chunks |-> << >>, currentChunk |-> << >>, currentStart |-> 0],
                        content, Split(content)),
              content)

\* ------------------------------------------------------ documents, chunks
\* the rows of documents with url u (idx_documents_url_unique: at most one)
DocByURL(u) == {d \in documents : d.url = u}

\* SELECT id FROM documents WHERE url = u
DocIds(u) == {d.id : d \in DocByURL(u)}

\* the id RETURNING id gives back: that of the row with the url, or a new one
UpsertedID(u) ==
    IF DocByURL(u) = {} THEN docSeq + 1 ELSE (CHOOSE d \in DocByURL(u) : TRUE).id

\* mutant: a plain INSERT on a table without the unique index on url
InsertDocument(u, title, content) ==
    documents \cup {[id |-> docSeq + 1, url |-> u, title |-> title,
                     content |-> content, embedding |-> VectorOf(content)]}

\* INSERT INTO documents (url, title, content, embedding) VALUES (...)
\* ON CONFLICT (url) DO UPDATE SET title, content, embedding RETURNING id
UpsertDocument(u, title, content) ==
    (documents \ DocByURL(u)) \cup
        {[id |-> UpsertedID(u), url |-> u, title |-> title,
          content |-> content, embedding |-> VectorOf(content)]}

\* the rows of chunks of document d
ChunksOfDocument(d) == {c \in chunks : c.document_id = d}

\* lines 513-534: INSERT INTO chunks (document_id, content, embedding,
\* chunk_index, start_position, end_position), one statement per chunk of
\* the content; the contents that the store is given have one chunk.  The
\* row is refused when no document has the id (chunks.document_id REFERENCES
\* documents); the chunks a document already has are left in place.  The
\* column row stands for the SERIAL id: it tells rows with equal columns apart
InsertRows(d, cs) ==
    IF \E doc \in documents : doc.id = d
    THEN chunks \cup
           {[document_id |-> d,
             row |-> Cardinality(ChunksOfDocument(d)) + k,
             content |-> cs[k].Content,
             embedding |-> VectorOf(cs[k].Content),
             chunk_index |-> cs[k].ChunkIndex,
             start_position |-> cs[k].StartPosition,
             end_position |-> cs[k].EndPosition]
            : k \in 1..Len(cs)}
    ELSE chunks

\* line 360 and line 94: the rows of the chunks chunkDocument makes of a content
InsertChunks(d, content) ==
    LET cs == chunkDocument(content)
    IN  InsertRows(d, cs)

\* what fetchContent returns for a page that could be fetched: the title is
\* the URL when the page has none; the text of the pages has no capitalised
\* word, so that extractEntities finds no entity in it
fetchContent(u) == [title |-> u, content |-> cleanContent(<<SP, TextPlain, SP>>)]

\* the chunks of the page of each URL, as chunkDocument makes them (line 360)
FetchedChunks ==
    [u \in Urls \cup {EmptyURL} |-> chunkDocument(fetchContent(u).content)] @@ << >>

\* the tables are empty and no call is running
InitStore ==
    /\ queue = << >>
    /\ documents = {}
    /\ chunks = {}
    /\ ctxDone = FALSE
    /\ pool = [pc |-> "L220", i |-> 0, wg |-> 0]
    /\ pc = [t \in Threads |-> IF t \in Workers THEN "none" ELSE "idle"]
    /\ queueID = [t \in Threads |-> 0]
    /\ url = [t \in Threads |-> EmptyURL]
    /\ err = [t \in Threads |-> nil]
    /\ ret = [op |-> "none", arg |-> EmptyURL, err |-> nil]
    /\ claims = << >>
    /\ apiCalls = 0
    /\ docSeq = 0
    /\ nodes = {}
    /\ nodeSeq = 0
    /\ edges = {}
    /\ documentID = [t \in Threads |-> 0]
    /\ inl = [t \in Inline |-> [content |-> << >>, i |-> 0, entityMap |-> << >>]]
    /\ ingestCalls = 0
    /\ apiOp = "none"
    /\ writes = << >>
    /\ oldDoc = 0

Init == InitStore /\ resp = [op |-> "none"]

\* ---------------------------------------------------------------- QueueURL
\* mutant: no URL is rejected as empty
NoURLIsEmpty(u) == FALSE

\* line 203: if url == ""
URLIsEmpty(u) == u = EmptyURL

QueueURL(u) ==
    /\ IF URLIsEmpty(u)
       THEN /\ ret' = [op |-> "QueueURL", arg |-> u, err |-> ErrEmptyURL]
            /\ UNCHANGED <<queue, claims>>
       ELSE IF UrlQueued(u)
       THEN /\ ret' = [op |-> "QueueURL", arg |-> u, err |-> ErrQueue]
            /\ UNCHANGED <<queue, claims>>
       ELSE /\ queue' = Append(queue, NewItem(u))
            /\ claims' = Append(claims, 0)
            /\ ret' = [op |-> "QueueURL", arg |-> u, err |-> nil]
    /\ UNCHANGED <<documents, chunks, ctxDone, pool, pc, queueID, url, err,
                   docSeq, documentID, graphVars, apiVars, resp>>

\* the caller of StartBackgroundWorkers cancels the shared context
Cancel ==
    /\ ~ctxDone
    /\ ctxDone' = TRUE
    /\ UNCHANGED <<queue, documents, chunks, pool, pc, queueID, url, err, ret,
                   claims, docSeq, documentID, graphVars, apiVars, resp>>

\* -------------------------------------------------- StartBackgroundWorkers
\* for i := 0; i < numWorkers; i++ { wg.Add(1); go func(workerID) {...}(i) }
Spawn ==
    /\ pool.pc = "L220"
    /\ pool.i < NumWorkers
    /\ pool' = [pc |-> IF pool.i + 1 = NumWorkers THEN "L227" ELSE "L220",
                i |-> pool.i + 1, wg |-> pool.wg + 1]
    /\ pc' = [pc EXCEPT ![pool.i + 1] = "L233"]
    /\ UNCHANGED <<queue, documents, chunks, ctxDone, queueID, url, err, ret,
                   claims, docSeq, documentID, graphVars, apiVars, resp>>

\* mutant: StartBackgroundWorkers does not wait for the workers
WaitReturnsAtOnce == TRUE

\* wg.Wait()
WaitReturns == pool.wg = 0

Wait ==
    /\ pool.pc = "L227"
    /\ WaitReturns
    /\ pool' = [pool EXCEPT !.pc = "returned"]
    /\ UNCHANGED <<queue, documents, chunks, ctxDone, pc, queueID, url, err, ret,
                   claims, docSeq, documentID, graphVars, apiVars, resp>>

\* ------------------------------------------------------------- ProcessURL
\* ProcessURL returns e to its caller: the worker loop (line 265), or the
\* client, directly or through ReindexURL (line 668)
ReturnFromProcessURL(t, e) ==
    IF t = API
    THEN /\ pc' = [pc EXCEPT ![t] = "idle"]
         /\ ret' = [op |-> apiOp, arg |-> url[t], err |-> e]
         /\ err' = [err EXCEPT ![t] = nil]
         /\ url' = [url EXCEPT ![t] = EmptyURL]
         /\ documentID' = [documentID EXCEPT ![t] = 0]
         /\ UNCHANGED queueID
    ELSE /\ pc' = [pc EXCEPT ![t] = IF e = nil THEN "W283" ELSE "W268"]
         /\ err' = [err EXCEPT ![t] = e]
         /\ UNCHANGED <<ret, url, queueID, documentID>>

\* line 301: UPDATE url_queue SET status = 'processing' WHERE url = $1
P301(t) ==
    /\ pc[t] = "P301"
    /\ IF Live(t)
       THEN /\ queue' = SetStatusByURL(queue, url[t], "processing")
            /\ pc' = [pc EXCEPT ![t] = "P307"]
            /\ UNCHANGED <<ret, err, url, queueID, documentID>>
       ELSE /\ ReturnFromProcessURL(t, Wrap("failed to update status to processing", ErrCanceled))
            /\ UNCHANGED queue
    /\ writes' = IF t = API /\ apiOp = "ReindexURL"
                 THEN Append(writes, "ProcessURL")
                 ELSE writes
    /\ UNCHANGED <<documents, chunks, ctxDone, pool, claims, docSeq, graphVars,
                   apiCalls, apiOp, oldDoc, resp>>

\* the sequence hands out an id when the upsert inserts a row
NextDocSeq(u) == IF DocByURL(u) = {} THEN docSeq + 1 ELSE docSeq

\* lines 307-357: fetchContent, which fails or succeeds, then the statement
\* that follows it: the UPDATE to 'failed' (311) or the document upsert (337);
\* cleanContent and generateEmbedding do not fail
P307(t) ==
    /\ pc[t] = "P307"
    /\ \E fetched \in BOOLEAN :
        IF ~fetched
        THEN /\ queue' = IF Live(t) THEN SetFailedByURL(queue, url[t], ErrFetch) ELSE queue
             /\ ReturnFromProcessURL(t, Wrap("failed to fetch content", ErrFetch))
             /\ UNCHANGED <<documents, docSeq>>
        ELSE IF Live(t)
        THEN /\ documents' = UpsertDocument(url[t], fetchContent(url[t]).title,
                                            fetchContent(url[t]).content)
             /\ docSeq' = NextDocSeq(url[t])
             /\ documentID' = [documentID EXCEPT ![t] = UpsertedID(url[t])]
             /\ pc' = [pc EXCEPT ![t] = "P360"]
             /\ UNCHANGED <<queue, ret, err, url, queueID>>
        ELSE \* the upsert fails, and so does the UPDATE to 'failed' of line 350
             /\ ReturnFromProcessURL(t, Wrap("failed to store document", ErrCanceled))
             /\ UNCHANGED <<queue, documents, docSeq>>
    /\ UNCHANGED <<chunks, ctxDone, pool, claims, graphVars, apiVars, resp>>

\* line 360: chunkDocument inserts the chunk rows of the document; an insert
\* fails (and is only logged) when the context is cancelled or the document
\* row is gone.  Lines 367-374 start ExtractEntitiesAndRelations in a
\* goroutine of its own with context.Background(): it finds no entity in the
\* text of a fetched page and issues no statement.
P360(t) ==
    /\ pc[t] = "P360"
    /\ chunks' = IF Live(t)
                 THEN InsertRows(documentID[t], FetchedChunks[url[t]])
                 ELSE chunks
    /\ pc' = [pc EXCEPT ![t] = "P377"]
    /\ UNCHANGED <<queue, documents, ctxDone, pool, queueID, url, err, ret, claims,
                   docSeq, documentID, graphVars, apiVars, resp>>

\* line 377: UPDATE url_queue SET status = 'completed' WHERE url = $1; return nil
P377(t) ==
    /\ pc[t] = "P377"
    /\ queue' = IF Live(t) THEN SetStatusByURL(queue, url[t], "completed") ELSE queue
    /\ ReturnFromProcessURL(t, nil)
    /\ UNCHANGED <<documents, chunks, ctxDone, pool, claims, docSeq, graphVars, apiVars,
                   resp>>

ProcessURL(t) == P301(t) \/ P307(t) \/ P360(t) \/ P377(t)

\* --------------------------------------------------------- processURLQueue
\* mutant: the loop body ends with return instead of continue
ReturnFromLoop(w) ==
    /\ pc' = [pc EXCEPT ![w] = "exited"]
    /\ queueID' = [queueID EXCEPT ![w] = 0]
    /\ url' = [url EXCEPT ![w] = EmptyURL]
    /\ err' = [err EXCEPT ![w] = nil]
    /\ documentID' = [documentID EXCEPT ![w] = 0]

\* the next iteration of the for loop: the locals of the iteration are gone
Continue(w) ==
    /\ pc' = [pc EXCEPT ![w] = "L233"]
    /\ queueID' = [queueID EXCEPT ![w] = 0]
    /\ url' = [url EXCEPT ![w] = EmptyURL]
    /\ err' = [err EXCEPT ![w] = nil]
    /\ documentID' = [documentID EXCEPT ![w] = 0]

\* lines 233-236: select { case <-ctx.Done(): return; default: ... }
\* the return runs the deferred wg.Done() of StartBackgroundWorkers
L233(w) ==
    /\ pc[w] = "L233"
    /\ IF ctxDone
       THEN /\ pc' = [pc EXCEPT ![w] = "exited"]
            /\ pool' = [pool EXCEPT !.wg = pool.wg - 1]
       ELSE /\ pc' = [pc EXCEPT ![w] = "L240"]
            /\ UNCHANGED pool
    /\ UNCHANGED <<queue, documents, chunks, ctxDone, queueID, url, err, ret, claims,
                   docSeq, documentID, graphVars, apiVars, resp>>

\* lines 240-262: the claim statement
L240(w) ==
    /\ pc[w] = "L240"
    /\ IF ~Live(w) \/ Pending = {}
       THEN \* an error or sql.ErrNoRows (then time.Sleep): continue
            /\ Continue(w)
            /\ UNCHANGED <<queue, claims>>
       ELSE LET i == OldestPending IN
            /\ queue' = [queue EXCEPT ![i].status = "processing"]
            /\ claims' = [claims EXCEPT ![i] = @ + 1]
            /\ queueID' = [queueID EXCEPT ![w] = i]
            /\ url' = [url EXCEPT ![w] = queue[i].url]
            /\ pc' = [pc EXCEPT ![w] = "P301"]
            /\ UNCHANGED <<err, documentID>>
    /\ UNCHANGED <<documents, chunks, ctxDone, pool, ret, docSeq, graphVars, apiVars,
                   resp>>

\* lines 268-279: UPDATE url_queue SET status = 'failed', error = $1,
\* retry_count = retry_count + 1 WHERE id = $2; continue
W268(w) ==
    /\ pc[w] = "W268"
    /\ queue' = IF Live(w)
                THEN [queue EXCEPT ![queueID[w]].status = "failed",
                                   ![queueID[w]].error = err[w],
                                   ![queueID[w]].retry_count = @ + 1]
                ELSE queue
    /\ Continue(w)
    /\ UNCHANGED <<documents, chunks, ctxDone, pool, ret, claims, docSeq,
                   graphVars, apiVars, resp>>

\* lines 283-291: UPDATE url_queue SET status = 'completed' WHERE id = $1
W283(w) ==
    /\ pc[w] = "W283"
    /\ queue' = IF Live(w)
                THEN [queue EXCEPT ![queueID[w]].status = "completed"]
                ELSE queue
    /\ Continue(w)
    /\ UNCHANGED <<documents, chunks, ctxDone, pool, ret, claims, docSeq,
                   graphVars, apiVars, resp>>

processURLQueue(w) ==
    L233(w) \/ L240(w) \/ ProcessURL(w) \/ W268(w) \/ W283(w)

\* ------------------------------------------------ delete / reindex calls
\* the call returns e to the client
ReturnToClient(t, o, a, e) ==
    /\ pc' = [pc EXCEPT ![t] = "idle"]
    /\ ret' = [op |-> o, arg |-> a, err |-> e]
    /\ queueID' = [queueID EXCEPT ![t] = 0]
    /\ url' = [url EXCEPT ![t] = EmptyURL]
    /\ UNCHANGED err

\* the argument of the running call: an id, or a URL
ApiArg ==
    IF apiOp \in {"DeleteURLByID", "ReindexURLByID"} THEN ToString(queueID[API]) ELSE url[API]

\* line 664: ReindexURL wraps the error of DeleteURL
ApiErr(e) ==
    IF apiOp = "ReindexURL" THEN Wrap("failed to delete existing data", e) ELSE e

\* mutant: a missing queue row is not reported
NotFoundIgnored(o) == nil

\* lines 588, 680, 762: the error returned when no url_queue row is found
NotFoundError(o) ==
    CASE o = "DeleteURLByID" -> ErrNotFoundID
      [] o = "ReindexURLByID" -> ErrNotFoundReindex
      [] o = "DeleteURL" -> ErrNotFoundURL
      [] OTHER -> Wrap("failed to delete existing data", ErrNotFoundURL)

\* the id of the document of URL u, 0 when it has none
DocIdOrZero(u) == IF DocIds(u) = {} THEN 0 ELSE CHOOSE d \in DocIds(u) : TRUE

\* WHERE document_id IN (SELECT id FROM documents WHERE url = $1)
EdgesOf(u) == {e \in edges : e.document_id \in DocIds(u)}
NodesOf(u) == {n \in nodes : n.document_id \in DocIds(u)}
ChunksOf(u) == {c \in chunks : c.document_id \in DocIds(u)}

\* knowledge_edges.source_id and target_id REFERENCE knowledge_nodes(id): a
\* node that an edge still points to cannot be deleted
NodeReferenced(n) == \E e \in edges : e.source_id = n.id \/ e.target_id = n.id

\* mutant: ReindexURL goes on to ProcessURL whatever DeleteURL returned
StepFailureIgnored(t, e) ==
    IF apiOp = "ReindexURL"
    THEN /\ pc' = [pc EXCEPT ![t] = "P301"]
         /\ UNCHANGED <<queueID, url, err, ret>>
    ELSE ReturnToClient(t, apiOp, ApiArg, e)

\* a delete statement failed with e: the method returns the error, and so
\* does ReindexURL when the method is its DeleteURL (lines 663-665)
StepFailed(t, e) == ReturnToClient(t, apiOp, ApiArg, ApiErr(e))

\* DELETE FROM knowledge_edges WHERE document_id IN (SELECT id FROM documents
\* WHERE url = $1)
DeleteEdges(t, here, next) ==
    /\ pc[t] = here
    /\ edges' = edges \ EdgesOf(url[t])
    /\ writes' = Append(writes, "knowledge_edges")
    /\ pc' = [pc EXCEPT ![t] = next]
    /\ UNCHANGED <<queue, documents, chunks, ctxDone, pool, queueID, url, err, ret,
                   claims, docSeq, documentID, nodes, nodeSeq, inl, ingestCalls,
                   apiCalls, apiOp, oldDoc, resp>>

\* DELETE FROM knowledge_nodes WHERE document_id IN (SELECT id FROM documents
\* WHERE url = $1): the statement fails as a whole, and the call returns its
\* error, when an edge that is left points to one of the nodes
DeleteNodes(t, here, next) ==
    /\ pc[t] = here
    /\ IF \E n \in NodesOf(url[t]) : NodeReferenced(n)
       THEN /\ StepFailed(t, Wrap("failed to delete knowledge nodes", ErrForeignKey))
            /\ UNCHANGED <<nodes, writes>>
       ELSE /\ nodes' = nodes \ NodesOf(url[t])
            /\ writes' = Append(writes, "knowledge_nodes")
            /\ pc' = [pc EXCEPT ![t] = next]
            /\ UNCHANGED <<queueID, url, err, ret>>
    /\ UNCHANGED <<queue, documents, chunks, ctxDone, pool, claims, docSeq,
                   documentID, nodeSeq, edges, inl, ingestCalls,
                   apiCalls, apiOp, oldDoc, resp>>

\* DELETE FROM chunks WHERE document_id IN (SELECT id FROM documents WHERE url = $1)
DeleteChunks(t, here, next) ==
    /\ pc[t] = here
    /\ chunks' = chunks \ ChunksOf(url[t])
    /\ writes' = Append(writes, "chunks")
    /\ pc' = [pc EXCEPT ![t] = next]
    /\ UNCHANGED <<queue, documents, ctxDone, pool, queueID, url, err, ret,
                   claims, docSeq, documentID, graphVars, apiCalls, apiOp, oldDoc,
                   resp>>

\* mutant: the DELETE FROM documents that finds no row is an error as well
DocumentReferencedOrNone(u) ==
    \/ DocIds(u) = {}
    \/ \E d \in DocIds(u) :
        \/ \E c \in chunks : c.document_id = d
        \/ \E n \in nodes : n.document_id = d
        \/ \E e \in edges : e.document_id = d

\* DELETE FROM documents WHERE url = $1 fails while a chunk, node or edge row
\* references the document (document_id REFERENCES documents(id))
DocumentReferenced(u) ==
    \E d \in DocIds(u) :
        \/ \E c \in chunks : c.document_id = d
        \/ \E n \in nodes : n.document_id = d
        \/ \E e \in edges : e.document_id = d

\* the first statement of a call did not find the queue row
ReturnNotFound(o, a) ==
    /\ ret' = [op |-> o, arg |-> a, err |-> NotFoundError(o)]
    /\ UNCHANGED <<pc, queueID, url>>

\* a call of method o on the API thread begins
BeginCall(o, u) ==
    /\ pc[API] = "idle"
    /\ apiCalls < MaxApiCalls
    /\ apiCalls' = apiCalls + 1
    /\ apiOp' = o
    /\ writes' = << >>
    /\ oldDoc' = DocIdOrZero(u)

\* ---- DeleteURLByID(id)
D677(id) ==
    /\ BeginCall("DeleteURLByID", IF id \in Ids THEN queue[id].url ELSE EmptyURL)
    /\ IF id \in Ids
       THEN /\ pc' = [pc EXCEPT ![API] = "D686"]
            /\ queueID' = [queueID EXCEPT ![API] = id]
            /\ url' = [url EXCEPT ![API] = queue[id].url]
            /\ UNCHANGED ret
       ELSE ReturnNotFound("DeleteURLByID", ToString(id))
    /\ UNCHANGED <<queue, documents, chunks, ctxDone, pool, err, claims,
                   docSeq, documentID, graphVars, resp>>

\* line 686: UPDATE url_queue SET status = 'deleted' WHERE id = $1
\* (no statement removes a url_queue row, so rowsAffected is 1)
D686 ==
    /\ pc[API] = "D686"
    /\ queue' = [queue EXCEPT ![queueID[API]].status = "deleted"]
    /\ writes' = Append(writes, "url_queue")
    /\ pc' = [pc EXCEPT ![API] = "D705"]
    /\ UNCHANGED <<documents, chunks, ctxDone, pool, queueID, url, err, ret,
                   claims, docSeq, documentID, graphVars, apiCalls, apiOp, oldDoc,
                   resp>>

\* line 741: DELETE FROM documents WHERE url = $1; return
D741 ==
    /\ pc[API] = "D741"
    /\ IF DocumentReferenced(url[API])
       THEN /\ ReturnToClient(API, "DeleteURLByID", ToString(queueID[API]),
                              Wrap("failed to delete documents", ErrForeignKey))
            /\ UNCHANGED <<documents, writes>>
       ELSE /\ documents' = documents \ DocByURL(url[API])
            /\ writes' = Append(writes, "documents")
            /\ ReturnToClient(API, "DeleteURLByID", ToString(queueID[API]), nil)
    /\ UNCHANGED <<queue, chunks, ctxDone, pool, claims, docSeq, documentID,
                   graphVars, apiCalls, apiOp, oldDoc, resp>>

\* mutant: DeleteURLByID removes the chunks before the edges
DeleteURLByIDChunksFirst ==
    \/ \E id \in 1..(Len(queue) + 1) : D677(id)
    \/ D686
    \/ DeleteChunks(API, "D705", "D717")
    \/ DeleteNodes(API, "D717", "D729")
    \/ DeleteEdges(API, "D729", "D741")
    \/ D741

DeleteURLByID ==
    \/ \E id \in 1..(Len(queue) + 1) : D677(id)
    \/ D686
    \/ DeleteEdges(API, "D705", "D717")
    \/ DeleteNodes(API, "D717", "D729")
    \/ DeleteChunks(API, "D729", "D741")
    \/ D741

\* ---- ReindexURLByID(id)
R759(id) ==
    /\ BeginCall("ReindexURLByID", IF id \in Ids THEN queue[id].url ELSE EmptyURL)
    /\ IF id \in Ids
       THEN /\ pc' = [pc EXCEPT ![API] = "R768"]
            /\ queueID' = [queueID EXCEPT ![API] = id]
            /\ url' = [url EXCEPT ![API] = queue[id].url]
            /\ UNCHANGED ret
       ELSE ReturnNotFound("ReindexURLByID", ToString(id))
    /\ UNCHANGED <<queue, documents, chunks, ctxDone, pool, err, claims,
                   docSeq, documentID, graphVars, resp>>

\* line 807: DELETE FROM documents WHERE url = $1
R807 ==
    /\ pc[API] = "R807"
    /\ IF DocumentReferenced(url[API])
       THEN /\ ReturnToClient(API, "ReindexURLByID", ToString(queueID[API]),
                              Wrap("failed to delete documents", ErrForeignKey))
            /\ UNCHANGED <<documents, writes>>
       ELSE /\ documents' = documents \ DocByURL(url[API])
            /\ writes' = Append(writes, "documents")
            /\ pc' = [pc EXCEPT ![API] = "R817"]
            /\ UNCHANGED <<queueID, url, err, ret>>
    /\ UNCHANGED <<queue, chunks, ctxDone, pool, claims, docSeq, documentID,
                   graphVars, apiCalls, apiOp, oldDoc, resp>>

\* line 817: UPDATE url_queue SET status = 'pending', error = NULL,
\* retry_count = 0 WHERE id = $1; return nil
ResetItem(item) ==
    [item EXCEPT !.status = "pending", !.error = NULL, !.retry_count = 0]

R817 ==
    /\ pc[API] = "R817"
    /\ queue' = [queue EXCEPT ![queueID[API]] = ResetItem(@)]
    /\ writes' = Append(writes, "url_queue")
    /\ ReturnToClient(API, "ReindexURLByID", ToString(queueID[API]), nil)
    /\ UNCHANGED <<documents, chunks, ctxDone, pool, claims, docSeq, documentID,
                   graphVars, apiCalls, apiOp, oldDoc, resp>>

ReindexURLByID ==
    \/ \E id \in 1..(Len(queue) + 1) : R759(id)
    \/ DeleteEdges(API, "R768", "R781")
    \/ DeleteNodes(API, "R781", "R794")
    \/ DeleteChunks(API, "R794", "R807")
    \/ R807
    \/ R817

\* ---- DeleteURL(url), alone or as the first half of ReindexURL(url)
\* line 579: SELECT COUNT(*) FROM url_queue WHERE url = $1
U579(o, u) ==
    /\ BeginCall(o, u)
    /\ IF UrlQueued(u)
       THEN /\ pc' = [pc EXCEPT ![API] = "U592"]
            /\ url' = [url EXCEPT ![API] = u]
            /\ UNCHANGED <<ret, queueID>>
       ELSE ReturnNotFound(o, u)
    /\ UNCHANGED <<queue, documents, chunks, ctxDone, pool, err, claims,
                   docSeq, documentID, graphVars, resp>>

\* line 592: UPDATE url_queue SET status = 'deleted' WHERE url = $1
\* (no statement removes a url_queue row, so rowsAffected is 1)
U592 ==
    /\ pc[API] = "U592"
    /\ queue' = SetStatusByURL(queue, url[API], "deleted")
    /\ writes' = Append(writes, "url_queue")
    /\ pc' = [pc EXCEPT ![API] = "U611"]
    /\ UNCHANGED <<documents, chunks, ctxDone, pool, queueID, url, err, ret,
                   claims, docSeq, documentID, graphVars, apiCalls, apiOp, oldDoc,
                   resp>>

\* line 647: DELETE FROM documents WHERE url = $1; DeleteURL returns, and
\* ReindexURL goes on to ProcessURL (line 668) unless the delete failed
U647 ==
    /\ pc[API] = "U647"
    /\ IF DocumentReferenced(url[API])
       THEN /\ StepFailed(API, Wrap("failed to delete documents", ErrForeignKey))
            /\ UNCHANGED <<documents, writes>>
       ELSE /\ documents' = documents \ DocByURL(url[API])
            /\ writes' = Append(writes, "documents")
            /\ IF apiOp = "DeleteURL"
               THEN ReturnToClient(API, "DeleteURL", url[API], nil)
               ELSE /\ pc' = [pc EXCEPT ![API] = "P301"]
                    /\ UNCHANGED <<queueID, url, err, ret>>
    /\ UNCHANGED <<queue, chunks, ctxDone, pool, claims, docSeq, documentID,
                   graphVars, apiCalls, apiOp, oldDoc, resp>>

DeleteURLSteps ==
    \/ U592
    \/ DeleteEdges(API, "U611", "U623")
    \/ DeleteNodes(API, "U623", "U635")
    \/ DeleteChunks(API, "U635", "U647")
    \/ U647

DeleteURL ==
    \/ \E u \in Urls : U579("DeleteURL", u)
    \/ apiOp = "DeleteURL" /\ DeleteURLSteps

ReindexURL ==
    \/ \E u \in Urls : U579("ReindexURL", u)
    \/ apiOp = "ReindexURL" /\ DeleteURLSteps
    \/ ProcessURL(API)

\* ---- ProcessURL(url) called on its own
\* line 297: the method is exported; it does not look for the queue row
P297(u) ==
    /\ pc[API] = "idle"
    /\ ingestCalls < MaxIngestCalls
    /\ ingestCalls' = ingestCalls + 1
    /\ apiOp' = "ProcessURL"
    /\ pc' = [pc EXCEPT ![API] = "P301"]
    /\ url' = [url EXCEPT ![API] = u]
    /\ UNCHANGED <<queue, documents, chunks, ctxDone, pool, queueID, err, ret,
                   claims, docSeq, documentID, nodes, nodeSeq, edges, inl,
                   apiCalls, writes, oldDoc, resp>>

\* --------------------------------------------------------- ProcessDocument
\* models.ProcessDocumentRequest: the requests the clients send
Requests ==
    { [url |-> "u1", title |-> "t1", content |-> <<TextA>>],
      [url |-> "u1", title |-> "t2", content |-> <<BAD, TextB, SP>>],
      [url |-> "u2", title |-> "t1", content |-> <<SP, TextA, CTL>>],
      [url |-> "u2", title |-> "t2", content |-> <<TextB>>],
      [url |-> "u1", title |-> "t1", content |-> << >>],
      [url |-> "u1", title |-> "t2", content |-> <<SP, CTL, TAB>>],
      [url |-> "u2", title |-> "t1", content |-> <<CTL, BAD>>] }

\* the call returns e to the client; its locals are gone
ReturnInline(t, u, e) ==
    /\ pc' = [pc EXCEPT ![t] = "idle"]
    /\ ret' = [op |-> "ProcessDocument", arg |-> u, err |-> e]
    /\ url' = [url EXCEPT ![t] = EmptyURL]
    /\ documentID' = [documentID EXCEPT ![t] = 0]
    /\ inl' = [inl EXCEPT ![t] = [content |-> << >>, i |-> 0, entityMap |-> << >>]]

\* lines 64-91: cleanContent, the check for empty content, generateEmbedding
\* and the document upsert
I79(t, req) ==
    /\ pc[t] = "idle"
    /\ ingestCalls < MaxIngestCalls
    /\ ingestCalls' = ingestCalls + 1
    /\ LET cleanedContent == cleanContent(req.content) IN
       IF cleanedContent = << >>
       THEN /\ ReturnInline(t, req.url, ErrEmptyContent)
            /\ UNCHANGED <<documents, docSeq>>
       ELSE /\ documents' = UpsertDocument(req.url, req.title, cleanedContent)
            /\ docSeq' = NextDocSeq(req.url)
            /\ documentID' = [documentID EXCEPT ![t] = UpsertedID(req.url)]
            /\ url' = [url EXCEPT ![t] = req.url]
            /\ inl' = [inl EXCEPT ![t].content = cleanedContent]
            /\ pc' = [pc EXCEPT ![t] = "I94"]
            /\ UNCHANGED ret
    /\ UNCHANGED <<queue, chunks, ctxDone, pool, queueID, err, claims,
                   nodes, nodeSeq, edges, apiVars, resp>>

\* ------------------------------------------ ExtractEntitiesAndRelations
\* lines 1041-1055 on the texts of this model: the matches of the person
\* pattern; no other pattern of extractEntities yields an entity for them
RECURSIVE extractEntities(_)
extractEntities(content) ==
    IF content = << >> THEN << >>
    ELSE (CASE Head(content) = TextA ->
                 <<[name |-> "Alice Smith", type |-> "person"],
                   [name |-> "Bob Jones", type |-> "person"]>>
            [] Head(content) = TextB ->
                 <<[name |-> "Alice Smith", type |-> "person"],
                   [name |-> "Carl Young", type |-> "person"]>>
            [] OTHER -> << >>)
         \o extractEntities(Tail(content))

\* lines 1237-1239: the matches of worksAtPattern in the texts of this model
RECURSIVE worksAtMatches(_)
worksAtMatches(content) ==
    IF content = << >> THEN << >>
    ELSE (CASE Head(content) = TextA ->
                 <<[person |-> "Alice Smith", organization |-> "Bob Jones"]>>
            [] Head(content) = TextB ->
                 <<[person |-> "Alice Smith", organization |-> "Carl Young"]>>
            [] OTHER -> << >>)
         \o worksAtMatches(Tail(content))

\* the id entityMap[name] reads: the zero value when name is not a key
IdOrZero(entityMap, name) == IF name \in DOMAIN entityMap THEN entityMap[name] ELSE 0

\* mutant: the two exists tests are left out
RECURSIVE RelationshipsUnchecked(_, _)
RelationshipsUnchecked(matches, entityMap) ==
    IF matches = << >> THEN << >>
    ELSE <<[SourceID |-> IdOrZero(entityMap, Head(matches).person),
            TargetID |-> IdOrZero(entityMap, Head(matches).organization),
            RelationshipType |-> "works_at"]>>
         \o RelationshipsUnchecked(Tail(matches), entityMap)

\* lines 1242-1254: a relationship for each match whose names are both keys
RECURSIVE RelationshipsOf(_, _)
RelationshipsOf(matches, entityMap) ==
    IF matches = << >> THEN << >>
    ELSE (IF /\ Head(matches).person \in DOMAIN entityMap
             /\ Head(matches).organization \in DOMAIN entityMap
          THEN <<[SourceID |-> entityMap[Head(matches).person],
                  TargetID |-> entityMap[Head(matches).organization],
                  RelationshipType |-> "works_at"]>>
          ELSE << >>)
         \o RelationshipsOf(Tail(matches), entityMap)

\* lines 1202-1278: a relationship for every match whose two names are keys
\* of entityMap (the texts have no match of isPattern or inPattern)
extractRelationships(content, entityMap) ==
    RelationshipsOf(worksAtMatches(content), entityMap)

\* SELECT id FROM knowledge_nodes WHERE name = $1 AND type = $2;
\* init.sql: UNIQUE (name, type)
NodeByKey(entity) ==
    {n \in nodes : n.name = entity.name /\ n.type = entity.type}

\* the id RETURNING id gives back
UpsertedNodeID(entity) ==
    IF NodeByKey(entity) = {} THEN nodeSeq + 1
    ELSE (CHOOSE n \in NodeByKey(entity) : TRUE).id

NextNodeSeq(entity) == IF NodeByKey(entity) = {} THEN nodeSeq + 1 ELSE nodeSeq

\* mutant: a plain INSERT on a table without UNIQUE (name, type)
InsertNode(entity, d) ==
    nodes \cup {[id |-> nodeSeq + 1, name |-> entity.name, type |-> entity.type,
                 document_id |-> d]}

\* lines 980-989: INSERT INTO knowledge_nodes (...) ON CONFLICT (name, type)
\* DO UPDATE SET properties, embedding, document_id RETURNING id
UpsertNode(entity, d) ==
    (nodes \ NodeByKey(entity)) \cup
        {[id |-> UpsertedNodeID(entity), name |-> entity.name,
          type |-> entity.type, document_id |-> d]}

\* init.sql: UNIQUE (source_id, target_id, relationship_type)
EdgeByKey(rel) ==
    {e \in edges : /\ e.source_id = rel.SourceID
                   /\ e.target_id = rel.TargetID
                   /\ e.relationship_type = rel.RelationshipType}

\* lines 1011-1017: INSERT INTO knowledge_edges (...) ON CONFLICT (source_id,
\* target_id, relationship_type) DO UPDATE SET properties, document_id
UpsertEdge(rel, d) ==
    (edges \ EdgeByKey(rel)) \cup
        {[source_id |-> rel.SourceID, target_id |-> rel.TargetID,
          relationship_type |-> rel.RelationshipType, document_id |-> d]}

\* document_id REFERENCES documents(id)
DocumentExists(d) == \E doc \in documents : doc.id = d

\* source_id, target_id REFERENCES knowledge_nodes(id)
NodeExists(id) == \E n \in nodes : n.id = id

\* the entity loop is done with one entity, entityMap being m: the next
\* entity, or extractRelationships and the first relationship, or return nil
NextEntity(t, m) ==
    IF inl[t].i < Len(extractEntities(inl[t].content))
    THEN /\ inl' = [inl EXCEPT ![t].i = @ + 1, ![t].entityMap = m]
         /\ pc' = [pc EXCEPT ![t] = "E952"]
         /\ UNCHANGED <<ret, url, documentID>>
    ELSE IF extractRelationships(inl[t].content, m) = << >>
    THEN ReturnInline(t, url[t], nil)
    ELSE /\ inl' = [inl EXCEPT ![t].i = 1, ![t].entityMap = m]
         /\ pc' = [pc EXCEPT ![t] = "E1011"]
         /\ UNCHANGED <<ret, url, documentID>>

\* lines 94-97: chunkDocument; then lines 943-950, the start of
\* ExtractEntitiesAndRelations
I94(t) ==
    /\ pc[t] = "I94"
    /\ chunks' = InsertChunks(documentID[t], inl[t].content)
    /\ IF extractEntities(inl[t].content) = << >>
       THEN ReturnInline(t, url[t], nil)
       ELSE /\ inl' = [inl EXCEPT ![t].i = 1]
            /\ pc' = [pc EXCEPT ![t] = "E952"]
            /\ UNCHANGED <<ret, url, documentID>>
    /\ UNCHANGED <<queue, documents, ctxDone, pool, queueID, err, claims, docSeq,
                   nodes, nodeSeq, edges, ingestCalls, apiVars, resp>>

\* lines 952-963: the SELECT of the entity's node; when there is one its id
\* goes to entityMap and the loop continues
E952(t) ==
    /\ pc[t] = "E952"
    /\ LET entity == extractEntities(inl[t].content)[inl[t].i] IN
       IF NodeByKey(entity) # {}
       THEN NextEntity(t, (entity.name :> UpsertedNodeID(entity)) @@ inl[t].entityMap)
       ELSE /\ pc' = [pc EXCEPT ![t] = "E980"]
            /\ UNCHANGED <<ret, url, documentID, inl>>
    /\ UNCHANGED <<queue, documents, chunks, ctxDone, pool, queueID, err, claims,
                   docSeq, nodes, nodeSeq, edges, ingestCalls, apiVars, resp>>

\* mutant: a node upsert that fails ends the call with the error
EntityFailureReturned(t) == ReturnInline(t, url[t], ErrForeignKey)

\* lines 990-997: a node upsert that fails is logged and the loop goes on
\* with the next entity
EntitySkipped(t) == NextEntity(t, inl[t].entityMap)

\* lines 980-997: the upsert of the entity's node; when it fails (the
\* document row is gone) the entity is skipped
E980(t) ==
    /\ pc[t] = "E980"
    /\ LET entity == extractEntities(inl[t].content)[inl[t].i] IN
       IF DocumentExists(documentID[t])
       THEN /\ nodes' = UpsertNode(entity, documentID[t])
            /\ nodeSeq' = NextNodeSeq(entity)
            /\ NextEntity(t, (entity.name :> UpsertedNodeID(entity)) @@ inl[t].entityMap)
       ELSE /\ EntitySkipped(t)
            /\ UNCHANGED <<nodes, nodeSeq>>
    /\ UNCHANGED <<queue, documents, chunks, ctxDone, pool, queueID, err, claims,
                   docSeq, edges, ingestCalls, apiVars, resp>>

\* lines 1004-1027: the upsert of one relationship's edge; when it fails (a
\* row it references is gone) the relationship is skipped
E1011(t) ==
    /\ pc[t] = "E1011"
    /\ LET relationships == extractRelationships(inl[t].content, inl[t].entityMap)
           rel == relationships[inl[t].i]
       IN  /\ edges' = IF /\ DocumentExists(documentID[t])
                          /\ NodeExists(rel.SourceID)
                          /\ NodeExists(rel.TargetID)
                       THEN UpsertEdge(rel, documentID[t])
                       ELSE edges
           /\ IF inl[t].i < Len(relationships)
              THEN /\ inl' = [inl EXCEPT ![t].i = @ + 1]
                   /\ UNCHANGED <<pc, ret, url, documentID>>
              ELSE ReturnInline(t, url[t], nil)
    /\ UNCHANGED <<queue, documents, chunks, ctxDone, pool, queueID, err, claims,
                   docSeq, nodes, nodeSeq, ingestCalls, apiVars, resp>>

ExtractEntitiesAndRelations(t) == E952(t) \/ E980(t) \/ E1011(t)

ProcessDocument(t) ==
    \/ \E req \in Requests : I79(t, req)
    \/ I94(t)
    \/ ExtractEntitiesAndRelations(t)

\* ------------------------------------------------------- GetKnowledgeGraph
\* the query strings the clients send: none, and parts of names
GraphQueries == {"", "alice", "s", "zzz"}

\* kn.name ILIKE '%' || query || '%' on the names of this model
NameMatches(name, query) ==
    CASE query = "alice" -> name = "Alice Smith"
      [] query = "s" -> name \in {"Alice Smith", "Bob Jones"}
      [] query = "zzz" -> FALSE

\* LEFT JOIN documents d ON kn.document_id = d.id: the url of the node's document
NodeResponse(n) ==
    [ID |-> n.id, Name |-> n.name, Type |-> n.type, DocumentID |-> n.document_id,
     URL |-> IF DocumentExists(n.document_id)
             THEN (CHOOSE d \in documents : d.id = n.document_id).url
             ELSE NULL]

\* lines 1312-1357: SELECT ... FROM knowledge_nodes kn [WHERE kn.name ILIKE $1]
SelectNodes(query) ==
    {NodeResponse(n) : n \in {m \in nodes : query = "" \/ NameMatches(m.name, query)}}

\* mutant: the edges are not filtered
AllEdgesKept(allEdges, nodeIDs) == allEdges

\* lines 1400-1406: the edges whose source and target are both among the nodes
FilterEdges(allEdges, nodeIDs) ==
    {e \in allEdges : e.source_id \in nodeIDs /\ e.target_id \in nodeIDs}

\* lines 1309-1366: the SELECT of the nodes; a query without a node returns at once
G1326(query) ==
    /\ pc[Client] = "idle"
    /\ resp.op = "none"
    /\ resp' = [op |-> "GetKnowledgeGraph", query |-> query,
                nodes |-> SelectNodes(query), edges |-> {},
                returned |-> query # "" /\ SelectNodes(query) = {}]
    /\ IF query # "" /\ SelectNodes(query) = {}
       THEN /\ ret' = [op |-> "GetKnowledgeGraph", arg |-> query, err |-> nil]
            /\ UNCHANGED pc
       ELSE /\ pc' = [pc EXCEPT ![Client] = "G1373"]
            /\ UNCHANGED ret
    /\ UNCHANGED <<queue, documents, chunks, ctxDone, pool, queueID, url, err,
                   claims, docSeq, documentID, graphVars, apiVars>>

\* lines 1370-1421: SELECT ... FROM knowledge_edges; with a query the edges
\* are filtered by the ids of the nodes selected before
G1373 ==
    /\ pc[Client] = "G1373"
    /\ resp' = [resp EXCEPT
                  !.edges = IF resp.query # ""
                            THEN FilterEdges(edges, {n.ID : n \in resp.nodes})
                            ELSE edges,
                  !.returned = TRUE]
    /\ ret' = [op |-> "GetKnowledgeGraph", arg |-> resp.query, err |-> nil]
    /\ pc' = [pc EXCEPT ![Client] = "idle"]
    /\ UNCHANGED <<queue, documents, chunks, ctxDone, pool, queueID, url, err,
                   claims, docSeq, documentID, graphVars, apiVars>>

GetKnowledgeGraph == (\E query \in GraphQueries : G1326(query)) \/ G1373

\* -------------------------------------------------------- generateEmbedding
\* a text is here a sequence of character codes; the characters of the texts
\* that are embedded: blank, 'A', 'a', 'b'
Chars == {32, 65, 97, 98}

\* strings.ToLower on one character
ToLower(c) == IF c >= 65 /\ c <= 90 THEN c + 32 ELSE c

\* strings.Fields: the words between the blanks
RECURSIVE Fields(_, _)
Fields(text, word) ==
    IF text = << >> THEN (IF word = << >> THEN << >> ELSE <<word>>)
    ELSE IF Head(text) = 32
    THEN (IF word = << >> THEN << >> ELSE <<word>>) \o Fields(Tail(text), << >>)
    ELSE Fields(Tail(text), Append(word, Head(text)))

\* line 413-414: the words of the text in lower case (Fields drops the
\* leading and trailing blanks that TrimSpace cuts)
Words(text) == Fields([k \in 1..Len(text) |-> ToLower(text[k])], << >>)

\* lines 417-422: wordHash[word] += len(words) - i
WordHash(words) ==
    [w \in {words[k] : k \in 1..Len(words)} |->
        LET at == {k \in 1..Len(words) : words[k] = w}
            RECURSIVE Sum(_)
            Sum(S) == IF S = {} THEN 0
                      ELSE LET k == CHOOSE x \in S : TRUE
                           IN  (Len(words) - (k - 1)) + Sum(S \ {k})
        IN  Sum(at)]

\* the orders in which a range loop can visit the keys of a map
Orders(keys) ==
    {o \in [1..Cardinality(keys) -> keys] : \A w \in keys : \E k \in DOMAIN o : o[k] = w}

\* lines 427-429: combinedHash = (combinedHash*31 + int(char)) % 1000000
RECURSIVE HashChars(_, _)
HashChars(h, word) ==
    IF word = << >> THEN h
    ELSE HashChars((h * 31 + Head(word)) % 1000000, Tail(word))

\* lines 425-431: the loop over the map, visiting the words in the given order
RECURSIVE CombinedHash(_, _, _)
CombinedHash(h, wordHash, order) ==
    IF order = << >> THEN h
    ELSE CombinedHash((HashChars(h, Head(order)) * wordHash[Head(order)]) % 1000000,
                      wordHash, Tail(order))

\* x * 2^k modulo 2^31, for x below 2^(31-k)
Limb == 2048

\* line 437: (seed*1103515245 + 12345) & 0x7fffffff, computed on the digits
\* of seed and of the multiplier in base 2^11 (1103515245 = 263*2^22 +
\* 201*2^11 + 1645), so that no product leaves the 32-bit integers
NextSeed(seed) ==
    LET a0 == seed % Limb
        a1 == (seed \div Limb) % Limb
        a2 == seed \div (Limb * Limb)
        b0 == 1645
        b1 == 201
        b2 == 263
        t0 == a0 * b0 + 12345
        t1 == ((a0 * b1 + a1 * b0) % 1048576) * Limb
        t2 == ((a0 * b2 + a1 * b1 + a2 * b0) % 512) * (Limb * Limb)
        AddMod(u, v) == IF u > 2147483647 - v THEN (u - 2147483647) + v - 1 ELSE u + v
    IN  AddMod(AddMod(t0, t1), t2)

\* line 409
Dimensions == 1536

\* lines 435-441: vector[i] = float32(seed%1000)/1000.0 + float32(i)/1536*0.1,
\* kept as its multiple by 15 360 000; n iterations of the loop from index i
\* on (the comparisons make TLC evaluate the values before it goes on)
RECURSIVE Span(_, _, _, _)
Span(seed, i, n, acc) ==
    LET next == NextSeed(seed)
        elems == Append(acc, (next % 1000) * 15360 + 1000 * i)
    IN  IF n = 0 THEN [seed |-> seed, elems |-> acc]
        ELSE IF next >= 0 /\ Len(elems) > 0
        THEN Span(next, i + 1, n - 1, elems)
        ELSE [seed |-> seed, elems |-> acc]

\* the loop, run in 24 spans of 64 iterations
RECURSIVE Vector(_, _, _)
Vector(seed, i, acc) ==
    LET span == Span(seed, i, 64, << >>)
    IN  IF i = Dimensions THEN acc
        ELSE IF span.seed >= 0
        THEN Vector(span.seed, i + 64, acc \o span.elems)
        ELSE acc

\* lines 406-444, the map being visited in the given order
generateEmbedding(text, order) ==
    Vector(CombinedHash(0, WordHash(Words(text)), order), 0, << >>)

\* -------------------------------------------------------------------- Query
\* the characters of a piece, as character codes
Codes(p) ==
    CASE p = SP -> <<32>>
      [] p = TAB -> <<9>>
      [] p = DOT -> <<46>>
      [] p = CTL -> <<1>>
      [] p = BAD -> <<255>>
      [] p = TextA -> <<65, 108, 105, 99, 101, 32, 83, 109, 105, 116, 104, 32,
                        97, 116, 116, 101, 110, 100, 101, 100, 32, 66, 111, 98,
                        32, 74, 111, 110, 101, 115>>
      [] p = TextB -> <<65, 108, 105, 99, 101, 32, 83, 109, 105, 116, 104, 32,
                        97, 116, 116, 101, 110, 100, 101, 100, 32, 67, 97, 114,
                        108, 32, 89, 111, 117, 110, 103>>
      [] p = TextPlain -> <<112, 108, 97, 105, 110, 32, 119, 111, 114, 100,
                            115, 32, 111, 110, 108, 121>>
      [] p = Run400 -> [k \in 1..400 |-> 120]
      [] p = Run600 -> [k \in 1..600 |-> 120]
      [] p = Run599 -> [k \in 1..599 |-> 120]
      [] p = Run1200 -> [k \in 1..1200 |-> 120]

\* the characters of a text that is a sequence of pieces
RECURSIVE TextOf(_)
TextOf(content) ==
    IF content = << >> THEN << >> ELSE Codes(Head(content)) \o TextOf(Tail(content))

\* LOWER(text), strings.ToLower(text)
Lower(text) == [k \in 1..Len(text) |-> ToLower(text[k])]

\* text LIKE '%' || sub || '%', for a sub without the characters % and _
Like(text, sub) ==
    \E k \in 0..(Len(text) - Len(sub)) : SubSeq(text, k + 1, k + Len(sub)) = sub

\* line 192: the characters strings.Trim cuts: . , ! ? ; : ( ) [ ] { } ' "
Cutset == {46, 44, 33, 63, 59, 58, 40, 41, 91, 93, 123, 125, 39, 34}

RECURSIVE Trim(_)
Trim(word) ==
    IF word # << >> /\ Head(word) \in Cutset THEN Trim(Tail(word))
    ELSE IF word # << >> /\ word[Len(word)] \in Cutset
    THEN Trim(SubSeq(word, 1, Len(word) - 1))
    ELSE word

\* config.StopWords, of the words the queries are made of: "the"
StopWords == {<<116, 104, 101>>}

\* config.IsStopWord
IsStopWord(word) == Lower(word) \in StopWords

\* lines 190-196: the loop over the words
RECURSIVE KeywordsOf(_)
KeywordsOf(words) ==
    IF words = << >> THEN << >>
    ELSE LET word == Trim(Head(words))
         IN  (IF Len(word) > 2 /\ ~IsStopWord(word) THEN <<word>> ELSE << >>)
             \o KeywordsOf(Tail(words))

\* lines 185-199
extractKeywords(query) == KeywordsOf(Words(query))

\* strings.Join(elems, " ")
RECURSIVE Join(_)
Join(elems) ==
    IF elems = << >> THEN << >>
    ELSE IF Len(elems) = 1 THEN Head(elems)
    ELSE Head(elems) \o <<32>> \o Join(Tail(elems))

\* string_to_array(text, ' '): the texts between the blanks, empty ones too
RECURSIVE StringToArray(_, _)
StringToArray(text, word) ==
    IF text = << >> THEN <<word>>
    ELSE IF Head(text) = 32 THEN <<word>> \o StringToArray(Tail(text), << >>)
    ELSE StringToArray(Tail(text), Append(word, Head(text)))

\* lines 131-133: the number of the keywords of $2 that LOWER(content) holds
RECURSIVE CountMatches(_, _)
CountMatches(content, keywords) ==
    IF keywords = << >> THEN 0
    ELSE (IF Like(Lower(TextOf(content)), Lower(Head(keywords))) THEN 1 ELSE 0)
         + CountMatches(content, Tail(keywords))

\* lines 128-135: keyword_score as the fraction matched / of; 0 when $2 = ''
KeywordScore(content, joined) ==
    IF joined = << >> THEN [matched |-> 0, of |-> 1]
    ELSE [matched |-> CountMatches(content, StringToArray(joined, << >>)),
          of |-> Len(StringToArray(joined, << >>))]

\* the texts the client asks: "", "Bob", "Alice Carl", "the plain?"
Queries ==
    { << >>,
      <<66, 111, 98>>,
      <<65, 108, 105, 99, 101, 32, 67, 97, 114, 108>>,
      <<116, 104, 101, 32, 112, 108, 97, 105, 110, 63>> }

\* the requests that fill the tables Query reads: a page of four sentences
\* that chunkDocument cuts into four chunks, under two URLs, and a short text
Page ==
    <<TextA, SP, Run600, DOT, SP, TextB, SP, Run600, DOT, SP,
      TextPlain, SP, Run600, DOT, SP, Run600, SP, Run400>>

Pages ==
    { [url |-> "u1", title |-> "t1", content |-> Page],
      [url |-> "u2", title |-> "t2", content |-> Page],
      [url |-> "u2", title |-> "t1", content |-> <<TextPlain>>] }

\* the contents of the chunks of these requests
ChunkContents ==
    UNION {{chunkDocument(cleanContent(req.content))[k].Content
            : k \in 1..Len(chunkDocument(cleanContent(req.content)))}
           : req \in Pages}

\* keyword_score for these contents and the keywords of these queries, as a
\* table that is computed once (@@ makes TLC keep the values)
KeywordScores ==
    [p \in ChunkContents \X {Join(extractKeywords(query)) : query \in Queries} |->
        KeywordScore(p[1], p[2])] @@ << >>

\* the hashes generateEmbedding can compute for these queries; the vector is
\* a function of the hash (lines 433-441) and the hash stands for it
QueryEmbeddings ==
    UNION {{CombinedHash(0, WordHash(Words(query)), order)
            : order \in Orders(DOMAIN WordHash(Words(query)))}
           : query \in Queries}

\* c.embedding <=> $1, pgvector's cosine distance, in thousandths: the values
\* it takes between the vectors of the queries and the stored vectors
DistanceValues == <<100, 200, 300, 400, 500>>

\* line 138: the threshold 0.5, in thousandths
Threshold == 500

\* the vectors are functions of the texts: the distances between them are
\* a table that does not change.  In the tables that are tried, two
\* different stored vectors are at different distances from a query vector,
\* and the same stored vector is at different distances from two query
\* vectors
Geometries ==
    {[p \in QueryEmbeddings \X {VectorOf(content) : content \in ChunkContents} |->
        DistanceValues[((Cardinality({e \in QueryEmbeddings : e < p[1]})
                         + Cardinality({c \in ChunkContents : len(c) < len(p[2][2])})
                         + k) % Len(DistanceValues)) + 1]]
     : k \in 1..Len(DistanceValues)}

\* lines 121-138: FROM chunks c JOIN documents d ON c.document_id = d.id
\* WHERE c.embedding <=> $1 < 0.5, with the columns of the SELECT list (the
\* row of the chunk tells rows with equal columns apart)
SelectRows(queryEmbedding, joined) ==
    {[content |-> c.content,
      similarity |-> resp.space[<<queryEmbedding, c.embedding>>],
      document_id |-> d.id,
      url |-> d.url,
      title |-> d.title,
      keyword_score |-> KeywordScores[<<c.content, joined>>],
      row |-> c.row]
     : <<c, d>> \in {p \in chunks \X documents :
                        /\ p[1].document_id = p[2].id
                        /\ resp.space[<<queryEmbedding, p[1].embedding>>] < Threshold}}

\* mutant: ORDER BY c.embedding <=> $1 ASC alone
BeforeByDistance(a, b) == a.similarity < b.similarity

\* lines 139-149: ORDER BY keyword_score DESC, c.embedding <=> $1 ASC: row a
\* comes before row b (the scores of one query have the same denominator)
Before(a, b) ==
    \/ a.keyword_score.matched > b.keyword_score.matched
    \/ /\ a.keyword_score.matched = b.keyword_score.matched
       /\ a.similarity < b.similarity

\* rows that are equal in every column of the SELECT list
SameColumns(a, b) == [a EXCEPT !.row = 0] = [b EXCEPT !.row = 0]

\* line 150: LIMIT 5
ResultLimit == 5

\* what the statement can return: the first n rows in the order of the
\* ORDER BY; rows that it does not tell apart come in any order (of rows
\* that are equal in every column one order is kept: the others give the
\* same result)
RECURSIVE FirstRows(_, _)
FirstRows(rows, n) ==
    IF rows = {} \/ n = 0 THEN {<< >>}
    ELSE UNION {{<<r>> \o rest : rest \in FirstRows(rows \ {r}, n - 1)}
                : r \in {x \in rows :
                           /\ \A y \in rows : ~Before(y, x)
                           /\ \A y \in rows : SameColumns(x, y) => x.row <= y.row}}

\* lines 169-178: the models.SearchResult of a scanned row; Score is
\* (1 - similarity)*0.3 + keywordScore*0.7 as a fraction
SearchResult(r) ==
    [Content |-> r.content,
     Score |-> [num |-> 3 * (1000 - r.similarity) * r.keyword_score.of
                        + 7000 * r.keyword_score.matched,
                den |-> 10000 * r.keyword_score.of],
     DocumentID |-> r.document_id,
     URL |-> r.url,
     Title |-> r.title]

\* lines 109-182: the range loop of generateEmbedding visits the words in
\* some order; scanned holds the rows in the order rows.Next gave them
Query(query) ==
    /\ pc[Client] = "idle"
    /\ \E order \in Orders(DOMAIN WordHash(Words(query))) :
         LET queryEmbedding == CombinedHash(0, WordHash(Words(query)), order)
             joined == Join(extractKeywords(query))
         IN  \E scanned \in FirstRows(SelectRows(queryEmbedding, joined), ResultLimit) :
               resp' = [op |-> "Query",
                        space |-> resp.space,
                        query |-> query,
                        queryEmbedding |-> queryEmbedding,
                        scanned |-> scanned,
                        results |-> [k \in 1..Len(scanned) |-> SearchResult(scanned[k])]]
    /\ UNCHANGED <<queue, documents, chunks, ctxDone, pool, pc, queueID, url,
                   err, ret, claims, docSeq, documentID, graphVars, apiVars>>

\* --------------------------------------------------------- specifications
\* the queue and the worker pool, without delete / reindex calls
NextPool ==
    \/ \E u \in Urls \cup {EmptyURL} : QueueURL(u)
    \/ Cancel
    \/ Spawn
    \/ Wait
    \/ \E w \in Workers : processURLQueue(w)

SpecPool == Init /\ [][NextPool]_vars

\* the pool together with the delete / reindex calls of the HTTP API
Next ==
    \/ \E u \in Urls \cup {EmptyURL} : QueueURL(u)
    \/ Cancel
    \/ Spawn
    \/ Wait
    \/ \E w \in Workers : processURLQueue(w)
    \/ DeleteURLByID
    \/ ReindexURLByID
    \/ ReindexURL

Spec == Init /\ [][Next]_vars

\* concurrent ProcessDocument and ProcessURL calls, each in a goroutine of
\* its own
NextIngest ==
    \/ \E t \in Inline : ProcessDocument(t)
    \/ \E u \in Urls : P297(u)
    \/ ProcessURL(API)

SpecIngest == Init /\ [][NextIngest]_vars

\* a client's ProcessDocument calls for one URL while another client has an
\* URL reindexed: deleted, then processed
NextRace ==
    \/ \E u \in Urls : QueueURL(u)
    \/ \E req \in Requests : req.url = "u1" /\ I79(Client, req)
    \/ I94(Client)
    \/ ExtractEntitiesAndRelations(Client)
    \/ ReindexURL

SpecRace == Init /\ [][NextRace]_vars

\* one client that calls the methods one after the other: a call begins when
\* no other call is running (the worker pool is not started)
Quiet == \A t \in Threads : pc[t] \in {"idle", "none"}

Busy(t) == pc[t] \notin {"idle", "none"}

NextStore ==
    \/ \E u \in Urls : QueueURL(u) /\ Quiet
    \/ ProcessDocument(Client) /\ (Quiet \/ Busy(Client))
    \/ DeleteURLByID /\ (Quiet \/ Busy(API))
    \/ DeleteURL /\ (Quiet \/ Busy(API))
    \/ ReindexURLByID /\ (Quiet \/ Busy(API))
    \/ ReindexURL /\ (Quiet \/ Busy(API))

SpecStore == Init /\ [][NextStore]_vars

\* one client that ingests, deletes and reindexes, one call after the other,
\* and then reads the knowledge graph
NextGraph ==
    \/ \E u \in Urls : QueueURL(u) /\ Quiet /\ resp.op = "none"
    \/ ProcessDocument(Client) /\ (Quiet \/ Busy(Client)) /\ resp.op = "none"
    \/ DeleteURL /\ (Quiet \/ Busy(API)) /\ resp.op = "none"
    \/ ReindexURL /\ (Quiet \/ Busy(API)) /\ resp.op = "none"
    \/ GetKnowledgeGraph /\ (Quiet \/ Busy(Client))

SpecGraph == Init /\ [][NextGraph]_vars

\* ---- chunkDocument on its own
\* the number of sentences of the contents that are chunked
MaxSentences == 6

\* the sentences of a content and what follows their period: runs of 400
\* and 600 bytes that a blank follows or not; or runs that fit into a chunk
\* together or not, by a byte, and a run that is longer than a chunk
Families ==
    {[runs |-> {Run400, Run600}, seps |-> {<<DOT, SP>>, <<DOT>>}],
     [runs |-> {Run400, Run599, Run1200}, seps |-> {<<DOT, SP>>}]}

\* a sentence and the period after it, followed by a blank or not
Units(f) == {<<r>> \o sep : r \in f.runs, sep \in f.seps}

RECURSIVE Flatten(_)
Flatten(ss) == IF ss = << >> THEN << >> ELSE Head(ss) \o Flatten(Tail(ss))

\* the cleaned contents of up to MaxSentences sentences: they end with a
\* sentence, or with the period after it
Contents ==
    UNION {{Flatten(us) \o <<r>> \o end :
               us \in UNION {[1..n -> Units(f)] : n \in 0..(MaxSentences - 1)},
               r \in f.runs,
               end \in {<< >>, <<DOT>>}} : f \in Families}

\* lines 446-452: chunkDocument is called with a content
InitChunk ==
    /\ InitStore
    /\ \E content \in Contents :
          resp = [op |-> "chunkDocument", content |-> content,
                  sentences |-> Split(content),
                  st |-> [chunks |-> << >>, currentChunk |-> << >>, currentStart |-> 0],
                  chunks |-> << >>, returned |-> FALSE]

\* lines 454-493: one iteration of the loop
C454 ==
    /\ resp.op = "chunkDocument"
    /\ ~resp.returned
    /\ resp.sentences # << >>
    /\ resp' = [resp EXCEPT !.st = OneSentence(@, resp.content, Head(resp.sentences)),
                            !.sentences = Tail(@)]
    /\ UNCHANGED <<queue, documents, chunks, ctxDone, pool, pc, queueID, url, err,
                   ret, claims, docSeq, documentID, graphVars, apiVars>>

\* lines 495-510: the last chunk; the chunks are complete
C495 ==
    /\ resp.op = "chunkDocument"
    /\ ~resp.returned
    /\ resp.sentences = << >>
    /\ resp' = [resp EXCEPT !.chunks = LastChunk(resp.st, resp.content),
                            !.returned = TRUE]
    /\ UNCHANGED <<queue, documents, chunks, ctxDone, pool, pc, queueID, url, err,
                   ret, claims, docSeq, documentID, graphVars, apiVars>>

NextChunk == C454 \/ C495

SpecChunk == InitChunk /\ [][NextChunk]_vars

\* ---- generateEmbedding on its own
\* the number of characters of the texts that are embedded
MaxTextLen == 3

Texts == UNION {[1..n -> Chars] : n \in 0..MaxTextLen}

\* generateEmbedding is called with a text, again and again
InitEmbed ==
    /\ InitStore
    /\ \E text \in Texts : resp = [op |-> "generateEmbedding", text |-> text,
                                   vector |-> << >>]

\* lines 406-444: one call; the range loop of line 426 visits the words of
\* the map in an order of its own choice
G406 ==
    /\ resp.op = "generateEmbedding"
    /\ \E order \in Orders(DOMAIN WordHash(Words(resp.text))) :
          resp' = [resp EXCEPT !.vector = generateEmbedding(resp.text, order)]
    /\ UNCHANGED <<queue, documents, chunks, ctxDone, pool, pc, queueID, url, err,
                   ret, claims, docSeq, documentID, graphVars, apiVars>>

NextEmbed == G406

SpecEmbed == InitEmbed /\ [][NextEmbed]_vars

\* ---- Query
\* one client that ingests pages, one call after the other, and then asks
NextQuery ==
    \/ \E req \in Pages : I79(Client, req) /\ resp.op = "none"
    \/ I94(Client)
    \/ ExtractEntitiesAndRelations(Client)
    \/ \E query \in Queries : Query(query)

\* the tables are empty and the distances between the vectors are given
InitQuery == InitStore /\ \E space \in Geometries : resp = [op |-> "none", space |-> space]

SpecQuery == InitQuery /\ [][NextQuery]_vars

\* ---- the worker pool while the context is not cancelled
\* the workers are started and run for good: every goroutine that can take a
\* step is scheduled, and every statement and every fetch returns
NextFair ==
    \/ \E u \in Urls \cup {EmptyURL} : QueueURL(u)
    \/ Spawn
    \/ \E w \in Workers : processURLQueue(w)

SpecFair ==
    /\ Init
    /\ [][NextFair]_vars
    /\ WF_vars(Spawn)
    /\ \A w \in Workers : WF_vars(processURLQueue(w))

\* ---- the queue under the calls of the HTTP API
\* one client that queues, deletes and reindexes URLs, one call after the
\* other; pages are fetched by ProcessURL and the worker pool is not started
NextQueue ==
    \/ \E u \in Urls : QueueURL(u) /\ Quiet
    \/ \E u \in Urls : P297(u)
    \/ DeleteURLByID /\ (Quiet \/ Busy(API))
    \/ DeleteURL /\ (Quiet \/ Busy(API))
    \/ ReindexURLByID /\ (Quiet \/ Busy(API))
    \/ ReindexURL /\ (Quiet \/ Busy(API))

SpecQueue == Init /\ [][NextQueue]_vars

\* ---- ProcessDocument on its own
\* requests whose content is punctuation: it is not empty after cleaning and
\* has no sentence
Punctuation ==
    { [url |-> "u1", title |-> "t1", content |-> <<DOT>>],
      [url |-> "u2", title |-> "t2", content |-> <<SP, DOT, SP, DOT, CTL>>] }

\* one client that calls ProcessDocument, one call after the other
NextDocument ==
    \/ \E req \in Requests \cup Punctuation : I79(Client, req)
    \/ I94(Client)
    \/ ExtractEntitiesAndRelations(Client)

SpecDocument == Init /\ [][NextDocument]_vars

\* ---- MCP HandleRequest
\* JSON-RPC error codes of the handler
ParseError == -32700
MethodNotFound == -32601
InvalidParams == -32602
InternalError == -32603

\* the tools of handleToolsCall, and those that fail without an argument
Tools ==
    {"process_document", "query_knowledge_base", "get_knowledge_graph", "queue_url",
     "get_queue_status"}
ArgumentRequired == {"process_document", "query_knowledge_base", "queue_url"}

\* the methods of the switch of line 96
Methods == {"initialize", "tools/list", "tools/call", "notifications/cancel"}

\* the params member of a request: none, a JSON string, or the object of a
\* tools/call with the tool's name and with or without its argument
NoParams == [kind |-> "none", name |-> "", hasArg |-> FALSE]
ToolParams ==
    {[kind |-> "object", name |-> n, hasArg |-> b] :
        n \in Tools \cup {"no_such_tool"}, b \in BOOLEAN}
        \cup {[kind |-> "string", name |-> "", hasArg |-> FALSE]}

\* the request bodies: text that is not JSON, and requests with an id that
\* is null, a number or a string
RequestIDs == {"null", "7", "\"a\""}
Bodies ==
    {[valid |-> FALSE, id |-> "null", method |-> "", params |-> NoParams]}
        \cup {[valid |-> TRUE, id |-> i, method |-> m, params |-> NoParams] :
                 i \in RequestIDs, m \in (Methods \ {"tools/call"}) \cup {"no/such"}}
        \cup {[valid |-> TRUE, id |-> i, method |-> "tools/call", params |-> p] :
                 i \in RequestIDs, p \in ToolParams}

\* lines 71-73: fmt.Sprintf("%v", req.ID) of the decoded id, "" for null
RequestIDStr(id) ==
    CASE id = "null" -> ""
      [] id = "7" -> "7"
      [] id = "\"a\"" -> "a"

\* MCPError, and the response without one
NoError == [set |-> FALSE, code |-> 0, message |-> "", data |-> ""]
MCPError(code, message, data) ==
    [set |-> TRUE, code |-> code, message |-> message, data |-> data]

\* MCPResponse
MCPResponse(id, result, error) == [id |-> id, result |-> result, error |-> error]

\* json.Marshal of a value, as the log entry keeps it
Marshal(v) == <<"json", v>>
NoBytes == <<"json">>

\* models.MCPLog; ptr tells the nil pointer from the entry of line 74
NilLogEntry ==
    [ptr |-> "nil", RequestID |-> "", Method |-> "", Response |-> NoBytes,
     Error |-> NoBytes]
NewLogEntry(id, method) ==
    [ptr |-> "entry", RequestID |-> RequestIDStr(id), Method |-> method,
     Response |-> NoBytes, Error |-> NoBytes]

NoCall == [fn |-> "none", id |-> "null", result |-> "", error |-> NoError]

\* a request body arrives
InitMCP ==
    /\ InitStore
    /\ \E body \in Bodies :
          resp = [op |-> "HandleRequest", body |-> body, pc |-> "H63",
                  logEntry |-> NilLogEntry, deferred |-> FALSE, call |-> NoCall,
                  written |-> << >>, logged |-> << >>]

\* the handler calls sendError
CallSendError(id, code, message, data) ==
    [fn |-> "sendError", id |-> id, result |-> "", error |-> MCPError(code, message, data)]

\* the handler calls sendResponse
CallSendResponse(id, result) ==
    [fn |-> "sendResponse", id |-> id, result |-> result, error |-> NoError]

\* lines 63-93: the body is decoded; when that fails sendError is called with
\* a nil log entry and the handler returns; else the log entry is made and
\* the function that logs it is deferred
H63 ==
    /\ resp.op = "HandleRequest"
    /\ resp.pc = "H63"
    /\ resp' = IF ~resp.body.valid
               THEN [resp EXCEPT !.pc = "sendError",
                                 !.call = CallSendError("null", ParseError, "Parse error",
                                                        "decode error")]
               ELSE [resp EXCEPT !.pc = "H96",
                                 !.logEntry = NewLogEntry(resp.body.id, resp.body.method),
                                 !.deferred = TRUE]
    /\ UNCHANGED <<queue, documents, chunks, ctxDone, pool, pc, queueID, url, err,
                   ret, claims, docSeq, documentID, graphVars, apiVars>>

\* lines 220-270: handleToolsCall; the service behind the tool answers or
\* returns an error
handleToolsCall(body, callErr) ==
    IF body.params.kind # "object"
    THEN CallSendError(body.id, InvalidParams, "Invalid params", "unmarshal error")
    ELSE IF body.params.name \notin Tools
    THEN CallSendError(body.id, MethodNotFound, "Method not found", "Tool not found")
    ELSE IF body.params.name \in ArgumentRequired /\ ~body.params.hasArg
    THEN CallSendError(body.id, InternalError, "Internal error", "argument is required")
    ELSE IF callErr
    THEN CallSendError(body.id, InternalError, "Internal error", "service error")
    ELSE CallSendResponse(body.id, body.params.name)

\* lines 96-107: the switch over the method
H96 ==
    /\ resp.op = "HandleRequest"
    /\ resp.pc = "H96"
    /\ \E callErr \in BOOLEAN :
          LET call == IF resp.body.method = "tools/call"
                      THEN handleToolsCall(resp.body, callErr)
                      ELSE IF resp.body.method \in Methods
                      THEN CallSendResponse(resp.body.id, resp.body.method)
                      ELSE CallSendError(resp.body.id, MethodNotFound,
                                         "Method not found", "Method not found")
          IN  resp' = [resp EXCEPT !.pc = call.fn, !.call = call]
    /\ UNCHANGED <<queue, documents, chunks, ctxDone, pool, pc, queueID, url, err,
                   ret, claims, docSeq, documentID, graphVars, apiVars>>

\* the handler is left: the deferred function runs next when there is one
Leave(after) == IF resp.deferred THEN "H86" ELSE after

\* lines 414-428: sendError; logEntry.Error = errorBytes is a write through
\* the pointer, which panics when the pointer is nil
sendError ==
    /\ resp.op = "HandleRequest"
    /\ resp.pc = "sendError"
    /\ resp' = IF resp.logEntry.ptr = "nil"
               THEN [resp EXCEPT !.pc = Leave("panicked")]
               ELSE [resp EXCEPT !.pc = "sendResponse",
                                 !.logEntry.Error = Marshal(resp.call.error)]
    /\ UNCHANGED <<queue, documents, chunks, ctxDone, pool, pc, queueID, url, err,
                   ret, claims, docSeq, documentID, graphVars, apiVars>>

\* lines 406-411: sendResponse; the response is written and the handler returns
sendResponse ==
    /\ resp.op = "HandleRequest"
    /\ resp.pc = "sendResponse"
    /\ resp' = [resp EXCEPT
                   !.pc = Leave("returned"),
                   !.logEntry.Response = Marshal(resp.call.result),
                   !.written = Append(@, MCPResponse(resp.call.id, resp.call.result,
                                                     resp.call.error))]
    /\ UNCHANGED <<queue, documents, chunks, ctxDone, pool, pc, queueID, url, err,
                   ret, claims, docSeq, documentID, graphVars, apiVars>>

\* lines 86-93: the deferred function calls LogMCPRequest with the log entry
H86 ==
    /\ resp.op = "HandleRequest"
    /\ resp.pc = "H86"
    /\ resp' = [resp EXCEPT !.pc = "returned", !.logged = Append(@, resp.logEntry)]
    /\ UNCHANGED <<queue, documents, chunks, ctxDone, pool, pc, queueID, url, err,
                   ret, claims, docSeq, documentID, graphVars, apiVars>>

NextMCP == H63 \/ H96 \/ sendError \/ sendResponse \/ H86

SpecMCP == InitMCP /\ [][NextMCP]_vars

\* ------------------------------------------------------------------ claims
Executing(w) == pc[w] \in {"P301", "P307", "P360", "P377"}
Holding(w) == pc[w] \in {"P301", "P307", "P360", "P377", "W268", "W283"}
StatusOf(i) == queue[i].status

\* C1: with N workers polling one queue, no pending item is claimed by more
\* than one worker: an item enqueued once is claimed exactly once before it
\* reaches completed or failed, and no two workers hold the same item.
C1_AtMostOneClaim ==
    /\ \A i \in Ids : claims[i] <= 1
    /\ \A i \in Ids : StatusOf(i) \in {"processing", "completed", "failed"} => claims[i] = 1
    /\ \A w1, w2 \in Workers :
        (w1 # w2 /\ Holding(w1) /\ Holding(w2)) => queueID[w1] # queueID[w2]

\* one worker holds the only item while another worker runs the claim statement
C1_Witness ==
    /\ Len(queue) = 1
    /\ \E w1, w2 \in Workers : w1 # w2 /\ Holding(w1) /\ pc[w2] = "L240"

\* C2: in every reachable state at most one worker executes ProcessURL for a
\* given queue item, also when the delete and reindex calls run on that item.
C2_OneWorkerPerItem ==
    \A w1, w2 \in Workers :
        (w1 # w2 /\ Executing(w1) /\ Executing(w2)) => queueID[w1] # queueID[w2]

\* C3: when the worker's ProcessURL returned nil, the item is completed after
\* the worker recorded the outcome; when it returned an error, the item is
\* failed, carries the error text and its retry_count is one greater.
C3_OutcomeRecorded ==
    [][\A w \in Workers :
        /\ (pc[w] = "W283" /\ pc'[w] = "L233") =>
               queue'[queueID[w]].status = "completed"
        /\ (pc[w] = "W268" /\ pc'[w] = "L233") =>
               /\ queue'[queueID[w]].status = "failed"
               /\ queue'[queueID[w]].error = err[w]
               /\ queue'[queueID[w]].retry_count = queue[queueID[w]].retry_count + 1]_vars

\* C4: an item in status failed or completed is not claimed again and keeps
\* its status in every step that is not a step of a delete or reindex call.
C4_TerminalStays ==
    [][\A i \in Ids :
        (StatusOf(i) \in {"failed", "completed"} /\ queue'[i].status # StatusOf(i))
            => pc'[API] # pc[API]]_vars

\* C5: QueueURL with the empty URL returns an error and inserts nothing: the
\* queue after the call is the queue before it.
C5_EmptyURLRejected ==
    [][QueueURL(EmptyURL) => (ret'.err # nil /\ queue' = queue)]_vars

\* the empty URL was rejected by a call made on a non-empty queue
C5_Witness ==
    /\ ret = [op |-> "QueueURL", arg |-> EmptyURL, err |-> ErrEmptyURL]
    /\ Len(queue) > 0

\* C6 as stated: QueueURL with any non-empty URL, whatever the queue holds,
\* returns success and leaves an item for that URL in status pending.
C6_AlwaysQueued ==
    [][\A u \in Urls : QueueURL(u) =>
        /\ ret'.err = nil
        /\ \E i \in 1..Len(queue') : queue'[i].url = u /\ queue'[i].status = "pending"]_vars

\* C6 amended: QueueURL with a non-empty URL that has no queue item returns
\* success and appends one pending item for it, with no error and retry
\* count 0; with a URL that has a queue item it returns an error and leaves
\* the queue as it was.
C6_QueuedUnlessDuplicate ==
    [][\A u \in Urls : QueueURL(u) =>
        IF \E i \in Ids : queue[i].url = u
        THEN ret'.err # nil /\ queue' = queue
        ELSE /\ ret'.err = nil
             /\ Len(queue') = Len(queue) + 1
             /\ \A i \in Ids : queue'[i] = queue[i]
             /\ queue'[Len(queue')].url = u
             /\ queue'[Len(queue')].status = "pending"
             /\ queue'[Len(queue')].error = NULL
             /\ queue'[Len(queue')].retry_count = 0]_vars

\* a URL was queued with success while the queue held an item in another status
C6_Witness ==
    /\ ret.op = "QueueURL" /\ ret.err = nil
    /\ Len(queue) = 2
    /\ StatusOf(2) = "pending"
    /\ StatusOf(1) # "pending"

\* C7: once the shared context is cancelled, no step of a worker moves an
\* item from pending to processing.
C7_NoClaimAfterCancel ==
    [][ctxDone => \A i \in Ids :
        (StatusOf(i) = "pending" /\ pc'[API] = pc[API]) => queue'[i].status = "pending"]_vars

\* the context is cancelled while a worker is past the select of line 233 and
\* about to run the claim statement on a queue with a pending item
C7_Witness ==
    /\ ctxDone
    /\ Pending # {}
    /\ \E w \in Workers : pc[w] = "L240"

\* C8: an item that a worker had claimed when the context was cancelled is
\* processed to its end: once the workers have exited, no item is left in
\* status processing.
C8_ClaimedWorkFinishes ==
    (\A w \in Workers : pc[w] = "exited") =>
        \A i \in Ids : StatusOf(i) # "processing"

\* C9: StartBackgroundWorkers returns only after all its worker loops exited.
C9_ReturnsAfterWorkersExit ==
    pool.pc = "returned" => \A w \in Workers : pc[w] = "exited"

\* StartBackgroundWorkers returned after its workers had claimed an item
C9_Witness ==
    /\ pool.pc = "returned"
    /\ \E i \in Ids : claims[i] > 0

\* C10: every claim takes the oldest pending item: when a worker claims item
\* i, no pending item has an earlier creation time than i.
C10_OldestFirst ==
    [][\A w \in Workers :
        (pc[w] = "L240" /\ pc'[w] = "P301") =>
            \A j \in Pending :
                queue[queueID'[w]].created_at <= queue[j].created_at]_vars

\* a worker has claimed the older of two items while the newer one is pending
C10_Witness ==
    /\ Len(queue) = 2
    /\ StatusOf(2) = "pending"
    /\ \E w \in Workers : pc[w] = "P301" /\ queueID[w] = 1

\* ------------------------------------------------- claims on the store
\* the rows of documents with url u after the step
DocsAfter(u) == {d \in documents' : d.url = u}

\* thread t stores a document for url u in this step
Stores(t, u) ==
    \/ t \in Inline /\ pc[t] = "idle" /\ pc'[t] = "I94" /\ url'[t] = u
    \/ pc[t] = "P307" /\ pc'[t] = "P360" /\ url[t] = u

\* C11: after any sequence of ProcessDocument and ProcessURL calls, sequential
\* or concurrent, there is at most one document row per URL; ingesting a URL
\* that already has a document adds no row and leaves the row of the URL, with
\* its id, carrying the title, content and vector of this ingestion.
C11_OneDocumentPerURL ==
    [][/\ \A u \in Urls : Cardinality(DocsAfter(u)) <= 1
       /\ \A t \in Threads, u \in Urls :
            (Stores(t, u) /\ DocByURL(u) # {}) =>
                /\ Cardinality(documents') = Cardinality(documents)
                /\ \A d \in DocsAfter(u) :
                    /\ d.id = documentID'[t]
                    /\ d.id \in DocIds(u)
                    /\ d.content = (IF t \in Inline THEN inl'[t].content
                                    ELSE fetchContent(u).content)
                    /\ d.embedding = VectorOf(d.content)
       /\ \A t \in Inline, req \in Requests :
            (pc[t] = "idle" /\ pc'[t] = "I94" /\ I79(t, req)) =>
                \A d \in DocsAfter(req.url) :
                    d.title = req.title /\ d.content = cleanContent(req.content)
       /\ \A t \in Threads \ Inline, u \in Urls :
            Stores(t, u) => \A d \in DocsAfter(u) : d.title = fetchContent(u).title
      ]_vars

\* u1 was ingested twice by ProcessDocument, the second time with the text
\* TextB and the title t2: one row, with the id the first ingestion got
C11_Witness ==
    /\ ingestCalls = 2
    /\ Cardinality({c \in chunks : c.document_id = 1}) = 2
    /\ documents = {[id |-> 1, url |-> "u1", title |-> "t2", content |-> <<TextB>>,
                     embedding |-> VectorOf(<<TextB>>)]}

\* thread t is done with the entity it was working on in this step
EntityDone(t) ==
    /\ pc[t] \in {"E952", "E980"}
    /\ pc'[t] \in {"E952", "E1011", "idle"}

\* the rows of knowledge_nodes with the key of the entity after the step
NodesAfter(entity) ==
    {n \in nodes' : n.name = entity.name /\ n.type = entity.type}

\* C12: extracting an entity (name, type) from a document leaves exactly one
\* knowledge node for that (name, type), and the node's document reference
\* is the document it was just extracted from, also when the node was
\* created by an earlier extraction from another document.
C12_NodeRefersToLatestDocument ==
    [][\A t \in Inline :
         EntityDone(t) =>
            LET entity == extractEntities(inl[t].content)[inl[t].i] IN
            /\ Cardinality(NodesAfter(entity)) = 1
            /\ \A n \in NodesAfter(entity) : n.document_id = documentID[t]
      ]_vars

\* the run of ExtractEntitiesAndRelations of thread t ends in this step
ExtractionEnds(t) ==
    /\ pc[t] \in {"E952", "E980", "E1011"}
    /\ pc'[t] = "idle"

\* the rows of knowledge_edges, after the step, that link the nodes with the
\* two names of a match by a works_at relationship
EdgesAfter(match) ==
    {e \in edges' :
        /\ \E n \in nodes' : n.name = match.person /\ n.id = e.source_id
        /\ \E n \in nodes' : n.name = match.organization /\ n.id = e.target_id
        /\ e.relationship_type = "works_at"}

\* C13: under every interleaving of concurrent ExtractEntitiesAndRelations
\* runs that extract the same entity or the same relationship, no two rows
\* of knowledge_nodes have the same (name, type) and no two rows of
\* knowledge_edges the same (source, target, relationship type), and when a
\* run ends there is exactly one row for each of its entities and each of
\* its relationships.
C13_OneRowPerKey ==
    [][/\ \A n1, n2 \in nodes' :
            (n1.name = n2.name /\ n1.type = n2.type) => n1 = n2
       /\ \A e1, e2 \in edges' :
            (/\ e1.source_id = e2.source_id
             /\ e1.target_id = e2.target_id
             /\ e1.relationship_type = e2.relationship_type) => e1 = e2
       /\ \A t \in Inline :
            ExtractionEnds(t) =>
                LET entities == extractEntities(inl[t].content)
                    matches == worksAtMatches(inl[t].content)
                IN  /\ \A k \in 1..Len(entities) :
                          Cardinality(NodesAfter(entities[k])) = 1
                    /\ \A k \in 1..Len(matches) :
                          Cardinality(EdgesAfter(matches[k])) = 1
      ]_vars

\* a run found no node for its entity and is about to insert one, and the
\* other run has inserted the node of that entity in between
C13_Witness ==
    \E t \in Inline :
        /\ pc[t] = "E980"
        /\ NodeByKey(extractEntities(inl[t].content)[inl[t].i]) # {}
        /\ \E s \in Inline \ {t} :
              extractEntities(inl[t].content)[inl[t].i].name \in DOMAIN inl[s].entityMap

\* the running call of the API thread returns to the client in this step
ApiReturns == pc[API] # "idle" /\ pc'[API] = "idle"

\* C14: when DeleteURL / DeleteURLByID, called on a queue item whose URL has
\* a document, returns, no chunk, knowledge node or knowledge edge refers to
\* that document's id, the document is gone, and the queue item is still
\* there with status deleted.
C14_DeleteRemovesEverything ==
    [][(apiOp \in {"DeleteURL", "DeleteURLByID"} /\ ApiReturns /\ oldDoc # 0) =>
          /\ \A d \in documents' : d.id # oldDoc
          /\ \A c \in chunks' : c.document_id # oldDoc
          /\ \A n \in nodes' : n.document_id # oldDoc
          /\ \A e \in edges' : e.document_id # oldDoc
          /\ Len(queue') = Len(queue)
          /\ \E i \in Ids : queue'[i].url = url[API] /\ queue'[i].status = "deleted"
      ]_vars

\* the order of the writes of a delete
DeleteOrder ==
    <<"url_queue", "knowledge_edges", "knowledge_nodes", "chunks", "documents">>

IsPrefix(s, r) == Len(s) <= Len(r) /\ s = SubSeq(r, 1, Len(s))

\* C15: a delete performs its writes in a fixed order: the queue item is
\* marked deleted, then the edges of the document are removed, then its
\* nodes, then its chunks, and last the document; at every moment the writes
\* done so far are an initial part of that order.
C15_DeleteOrder ==
    apiOp \in {"DeleteURL", "DeleteURLByID"} =>
        /\ IsPrefix(writes, DeleteOrder)
        /\ (pc[API] = "idle" /\ ret.op = apiOp /\ ret.err = nil) => writes = DeleteOrder

\* DeleteURLByID has run to its end on an item whose URL had a document
C15_Witness ==
    /\ apiOp = "DeleteURLByID"
    /\ oldDoc # 0
    /\ pc[API] = "idle"
    /\ writes = DeleteOrder

\* a delete call that begins in this step finds no queue row for its argument
DeleteOfUnknown ==
    \/ \E id \in 1..(Len(queue) + 1) : id \notin Ids /\ D677(id)
    \/ \E u \in Urls : ~UrlQueued(u) /\ U579("DeleteURL", u)

\* C16: DeleteURL / DeleteURLByID called with an identifier for which no
\* queue entry exists returns an error and changes nothing: no queue item,
\* document, chunk, node or edge is modified or removed.
C16_DeleteUnknownChangesNothing ==
    [][DeleteOfUnknown =>
          /\ pc'[API] = "idle"
          /\ ret'.op = apiOp'
          /\ ret'.err # nil
          /\ UNCHANGED <<queue, documents, chunks, nodes, edges>>
      ]_vars

\* a delete of a URL that is not queued, or of an id no item has, returned
\* its error while the URL had a document with chunks, nodes and an edge
C16_Witness ==
    /\ ret.op \in {"DeleteURL", "DeleteURLByID"}
    /\ ret.err \in {ErrNotFoundURL, ErrNotFoundID}
    /\ documents # {} /\ chunks # {} /\ nodes # {} /\ edges # {}

\* the order of the writes of ReindexURL: those of DeleteURL, then ProcessURL
ReindexOrder == DeleteOrder \o <<"ProcessURL">>

\* C17: ReindexURL(url) performs the whole delete of the URL's data and then
\* ProcessURL for the same URL, in that order; when both succeed exactly one
\* document exists for the URL, its id is not the id the URL's document had
\* before the call, and the queue item is completed; when the delete fails
\* ProcessURL is not begun.
C17_ReindexDeletesThenIngests ==
    [][apiOp = "ReindexURL" =>
          /\ IsPrefix(writes', ReindexOrder)
          /\ (ApiReturns /\ ret'.err = nil) =>
                /\ writes' = ReindexOrder
                /\ Cardinality(DocsAfter(url[API])) = 1
                /\ \A d \in DocsAfter(url[API]) : d.id # oldDoc
                /\ \A i \in Ids : queue'[i].url = url[API] => queue'[i].status = "completed"
          /\ (ApiReturns /\ pc[API] \in {"U592", "U611", "U623", "U635", "U647"}) =>
                /\ ret'.err # nil
                /\ "ProcessURL" \notin {writes'[k] : k \in 1..Len(writes')}
                /\ UNCHANGED documents
      ]_vars

\* ReindexURL has returned success for a URL that had document 1 before
C17_Witness ==
    /\ ret = [op |-> "ReindexURL", arg |-> "u1", err |-> nil]
    /\ oldDoc = 1
    /\ writes = ReindexOrder
    /\ \E d \in documents : d.url = "u1" /\ d.id = 2

\* C18: when ReindexURLByID, called on an existing item, returns, the edges,
\* nodes, chunks and document of the item's URL are gone, the item is pending
\* with its error cleared and retry_count 0, and the call has not fetched or
\* ingested anything: the URL has no document until a worker claims the item.
C18_ReindexByIDResets ==
    [][(apiOp = "ReindexURLByID" /\ ApiReturns) =>
          /\ DocsAfter(url[API]) = {}
          /\ oldDoc # 0 =>
                /\ \A c \in chunks' : c.document_id # oldDoc
                /\ \A n \in nodes' : n.document_id # oldDoc
                /\ \A e \in edges' : e.document_id # oldDoc
          /\ queue'[queueID[API]].status = "pending"
          /\ queue'[queueID[API]].error = NULL
          /\ queue'[queueID[API]].retry_count = 0
          /\ "ProcessURL" \notin {writes'[k] : k \in 1..Len(writes')}
      ]_vars

\* a text with nothing but white space, control characters and invalid bytes
Blank(content) == \A k \in 1..Len(content) : content[k] \in {SP, TAB, CTL, BAD}

\* C19: ProcessDocument whose content is empty after cleaning returns an
\* error and writes nothing: no document, chunk, node or edge is created or
\* changed.
C19_EmptyContentRejected ==
    [][\A t \in Inline, req \in Requests :
          (Blank(req.content) /\ pc[t] = "idle" /\ ingestCalls' # ingestCalls
             /\ I79(t, req)) =>
              /\ pc'[t] = "idle"
              /\ ret'.op = "ProcessDocument"
              /\ ret'.err # nil
              /\ UNCHANGED <<documents, chunks, nodes, edges, docSeq, nodeSeq>>
      ]_vars

\* a call with blank content returned its error while the store held a
\* document with the same URL
C19_Witness ==
    /\ ret.op = "ProcessDocument"
    /\ ret.err = ErrEmptyContent
    /\ DocByURL(ret.arg) # {}

\* ProcessURL run by thread t returns in this step because the fetch failed
FetchFailed(t) ==
    /\ pc[t] = "P307"
    /\ pc'[t] \in {"W268", "idle"}
    /\ (IF t = API THEN ret'.err ELSE err'[t]) = Wrap("failed to fetch content", ErrFetch)

\* C20: when fetching the URL fails, ProcessURL returns an error, writes no
\* document and no chunk, and leaves the queue item of the URL in status
\* failed with the error recorded.
C20_FetchFailureRecorded ==
    [][\A t \in Workers :
          FetchFailed(t) =>
              /\ UNCHANGED <<documents, chunks>>
              /\ \A i \in Ids :
                    queue'[i].url = url[t] =>
                        queue'[i].status = "failed" /\ queue'[i].error = ErrFetch
      ]_vars

\* ------------------------------------------- claims on failures and reads
\* thread t takes a step of ExtractEntitiesAndRelations
ExtractionStep(t) ==
    /\ pc[t] \in {"E952", "E980", "E1011"}
    /\ pc'[t] # pc[t] \/ inl'[t] # inl[t]

\* the statement that thread t issues next in ExtractEntitiesAndRelations
\* fails: a row it references is gone
ExtractionFails(t) ==
    \/ pc[t] = "E980" /\ ~DocumentExists(documentID[t])
    \/ /\ pc[t] = "E1011"
       /\ LET rel == extractRelationships(inl[t].content, inl[t].entityMap)[inl[t].i]
          IN  \/ ~DocumentExists(documentID[t])
              \/ ~NodeExists(rel.SourceID)
              \/ ~NodeExists(rel.TargetID)

\* thread t, whose document upsert succeeded, returns from ProcessDocument
\* or ProcessURL in this step
ReturnsAfterUpsert(t) ==
    \/ t \in Inline /\ pc[t] \in {"I94", "E952", "E980", "E1011"} /\ pc'[t] = "idle"
    \/ t \notin Inline /\ pc[t] \in {"P360", "P377"} /\ pc'[t] \notin {"P360", "P377"}

\* C21: a failure inside the extraction of entities and relationships never
\* fails the ingestion and never undoes it: ProcessDocument and ProcessURL
\* return success whenever the document upsert succeeded, and a failing
\* statement of the extraction leaves the document and chunk rows as they are.
C21_ExtractionFailureSwallowed ==
    [][\A t \in Inline \cup {API} :
         /\ (t \in Inline /\ ExtractionStep(t) /\ ExtractionFails(t)) =>
                UNCHANGED <<documents, chunks>>
         /\ ReturnsAfterUpsert(t) =>
                /\ ret'.err = nil
                /\ ret'.arg = url[t]
                /\ ret'.op = (IF t \in Inline THEN "ProcessDocument" ELSE apiOp)
      ]_vars

\* ProcessDocument has returned success for a text with two entities although
\* both node upserts failed: the reindex deleted the document in between
C21_Witness ==
    /\ ret = [op |-> "ProcessDocument", arg |-> "u1", err |-> nil]
    /\ ingestCalls = 1
    /\ docSeq = 1
    /\ nodeSeq = 0
    /\ pc[API] = "idle"
    /\ apiCalls = 1

\* the INSERT INTO chunks that thread t issues next fails: the document row
\* is gone, or the context of the worker is cancelled
ChunkInsertFails(t) ==
    \/ t \in Inline /\ pc[t] = "I94" /\ ~DocumentExists(documentID[t])
    \/ t \notin Inline /\ pc[t] = "P360"
                        /\ (~Live(t) \/ ~DocumentExists(documentID[t]))

\* C22: a store failure while persisting the chunks of a document is
\* surfaced: ProcessDocument returns an error to its caller, and ProcessURL
\* returns it to the worker, which records it on the queue item (W268).
C22_ChunkFailureSurfaced ==
    [][\A t \in Threads :
         (ChunkInsertFails(t) /\ pc'[t] # pc[t]) =>
             IF t \in Workers
             THEN pc'[t] = "W268" /\ err'[t] # nil
             ELSE pc'[t] = "idle" /\ ret'.err # nil
      ]_vars

NoWhitespace(s) == SelectPieces(s, Whitespace)

\* C24: for every chunk that chunkDocument makes of a content c, the slice
\* c[StartPosition:EndPosition], compared ignoring white space, equals the
\* chunk's Content, also when the text of a sentence occurs more than once.
C24_OffsetsReproduceContent ==
    (resp.op = "chunkDocument" /\ resp.returned) =>
        \A k \in 1..Len(resp.chunks) :
            NoWhitespace(Slice(resp.content, resp.chunks[k].StartPosition,
                               resp.chunks[k].EndPosition))
                = NoWhitespace(resp.chunks[k].Content)

\* C25: the chunks of one chunkDocument call, in the order of their index,
\* have ranges with 0 <= StartPosition <= EndPosition <= len(c), start
\* offsets that do not decrease, and no overlap: a chunk ends at or before
\* the start of the next one.
C25_RangesOrdered ==
    (resp.op = "chunkDocument" /\ resp.returned) =>
        /\ \A k \in 1..Len(resp.chunks) :
              /\ resp.chunks[k].ChunkIndex = k - 1
              /\ 0 <= resp.chunks[k].StartPosition
              /\ resp.chunks[k].StartPosition <= resp.chunks[k].EndPosition
              /\ resp.chunks[k].EndPosition <= len(resp.content)
        /\ \A k \in 1..(Len(resp.chunks) - 1) :
              /\ resp.chunks[k].StartPosition <= resp.chunks[k + 1].StartPosition
              /\ resp.chunks[k].EndPosition <= resp.chunks[k + 1].StartPosition

\* ---------------------------------------- claims on generateEmbedding, Query
\* C26: generateEmbedding is a function of its input text: two calls with the
\* same text return the same vector, of the fixed dimension, in whatever order
\* the map of the word frequencies is visited.
C26_EmbeddingDeterministic ==
    [][(/\ resp.op = "generateEmbedding"
        /\ resp.vector # << >>
        /\ resp'.op = "generateEmbedding"
        /\ resp'.text = resp.text) =>
            /\ Len(resp'.vector) = Dimensions
            /\ resp'.vector = resp.vector
      ]_vars


\* what the claims on Query say of a result: the keyword score of its
\* content for the query that was asked, and the distance of its chunk to
\* the vector of the query
ScoreOf(r) == KeywordScores[<<r.Content, Join(extractKeywords(resp.query))>>]

DistanceOf(r) == resp.space[<<resp.queryEmbedding, VectorOf(r.Content)>>]

\* C27: Query returns at most 5 results; every result is a chunk (with the
\* id, URL and title of its document) whose distance to the query vector is
\* below 0.5; the results are in the order of falling keyword score and,
\* among equal keyword scores, of rising distance
C27_ResultsRanked ==
    resp.op = "Query" =>
        /\ Len(resp.results) <= 5
        /\ \A k \in 1..Len(resp.results) :
             /\ \E c \in chunks : \E d \in documents :
                  /\ c.document_id = d.id
                  /\ resp.results[k].Content = c.content
                  /\ resp.results[k].DocumentID = d.id
                  /\ resp.results[k].URL = d.url
                  /\ resp.results[k].Title = d.title
             /\ DistanceOf(resp.results[k]) < 500
        /\ \A j, k \in 1..Len(resp.results) :
             j < k =>
               LET a == ScoreOf(resp.results[j])
                   b == ScoreOf(resp.results[k])
               IN  /\ a.matched * b.of >= b.matched * a.of
                   /\ a.matched * b.of = b.matched * a.of =>
                        DistanceOf(resp.results[j]) <= DistanceOf(resp.results[k])

\* Query returned 5 results of more chunks below the threshold, a chunk was
\* left out for its distance, and the results differ in keyword score and,
\* two of one keyword score, in distance
C27_Witness ==
    /\ resp.op = "Query"
    /\ Len(resp.results) = 5
    /\ Cardinality({c \in chunks :
                      resp.space[<<resp.queryEmbedding, c.embedding>>] < 500}) > 5
    /\ \E c \in chunks : resp.space[<<resp.queryEmbedding, c.embedding>>] >= 500
    /\ \E j, k \in 1..5 :
         ScoreOf(resp.results[j]).matched > ScoreOf(resp.results[k]).matched
    /\ \E j, k \in 1..5 :
         /\ ScoreOf(resp.results[j]).matched = ScoreOf(resp.results[k]).matched
         /\ DistanceOf(resp.results[j]) < DistanceOf(resp.results[k])

\* C28: while the stored chunks and documents stay the same, a call of Query
\* with the text of the call before returns the results of the call before,
\* in the same order
C28_SameResultsAgain ==
    [][(/\ resp.op = "Query"
        /\ resp'.op = "Query"
        /\ resp'.query = resp.query
        /\ chunks' = chunks
        /\ documents' = documents) =>
            resp'.results = resp.results
      ]_vars

\* the queue rows whose delete was the last call of the API client, and
\* returned without an error
DeleteReturned ==
    {i \in Ids : /\ pc[API] = "idle"
                 /\ apiOp = "DeleteURLByID"
                 /\ ret = [op |-> "DeleteURLByID", arg |-> ToString(i), err |-> nil]}

\* C29: once the delete of a queue item has returned successfully, and until
\* another call is made for its URL, the status of the item is deleted and no
\* document exists for the URL: a worker that claimed the item before the
\* delete neither completes or fails it nor stores the document again
C29_DeletedStaysDeleted ==
    \A i \in DeleteReturned :
        /\ queue[i].status = "deleted"
        /\ DocByURL(queue[i].url) = {}

\* the columns of a row of chunks that chunkDocument computes
ChunkOf(c) ==
    [Content |-> c.content, ChunkIndex |-> c.chunk_index,
     StartPosition |-> c.start_position, EndPosition |-> c.end_position]

\* C30: when ProcessDocument has returned without an error for a URL and no
\* call has begun since, the chunks stored for the document of the URL are
\* the chunks of its content, one row for each: no chunk of an earlier
\* content is left and no two rows have the same chunk_index
C30_ChunksOfLatestContent ==
    (/\ Quiet
     /\ ret.op = "ProcessDocument"
     /\ ret.err = nil) =>
        \A d \in DocByURL(ret.arg) :
            /\ {ChunkOf(c) : c \in ChunksOfDocument(d.id)}
                 = {chunkDocument(d.content)[k] : k \in 1..Len(chunkDocument(d.content))}
            /\ \A c1, c2 \in ChunksOfDocument(d.id) :
                 c1.chunk_index = c2.chunk_index => c1 = c2

\* ------------------------------------------- claims on deletes and the queue
\* the errors of a delete statement that a foreign key refused
ForeignKeyErrors ==
    {Wrap("failed to delete knowledge nodes", ErrForeignKey),
     Wrap("failed to delete documents", ErrForeignKey)}

\* C31: a delete of a queue item that exists never returns the error of a
\* statement that a foreign key of the schema refused, whatever knowledge
\* graph the ingested documents have left
C31_DeleteNeverBreaksForeignKey ==
    ret.op \in {"DeleteURL", "DeleteURLByID"} => ret.err \notin ForeignKeyErrors

\* the delete call of the API client has returned an error
DeleteFailed ==
    /\ pc[API] = "idle"
    /\ apiOp \in {"DeleteURL", "DeleteURLByID"}
    /\ ret.op = apiOp
    /\ ret.err # nil

\* C32: a delete that returns an error has left the tables as they were: no
\* statement of the call has written the queue item, a document, a chunk, a
\* node or an edge (the first statement that writes is the UPDATE that marks
\* the item deleted)
C32_DeleteAllOrNothing ==
    DeleteFailed => writes = << >>

C34_OneItemPerURL ==
    [][/\ \A i, j \in 1..Len(queue') : queue'[i].url = queue'[j].url => i = j
       /\ \A u \in Urls :
            ((\E i \in Ids : queue[i].url = u) /\ QueueURL(u))
                => (queue' = queue /\ ret'.err = ErrQueue)]_vars

\* QueueURL was refused for the URL of an item that is marked deleted
C34_Witness ==
    /\ ret.op = "QueueURL"
    /\ ret.err = ErrQueue
    /\ \E i \in Ids : queue[i].url = ret.arg /\ queue[i].status = "deleted"


\* ------------------------------------------ claims on the chunks' sentences
\* the sentences of a chunk: its Content is the sentences joined with ". "
SentencesOf(c) == Split(c.Content)

\* C35: a chunk that chunkDocument makes of more than one sentence has a
\* Content of at most 1000 bytes
C35_JoinedChunkWithinLimit ==
    (resp.op = "chunkDocument" /\ resp.returned) =>
        \A k \in 1..Len(resp.chunks) :
            Len(SentencesOf(resp.chunks[k])) > 1
                => len(resp.chunks[k].Content) <= ChunkLimit


\* the sentences of a text, trimmed, without the empty ones
RECURSIVE TrimmedSentences(_)
TrimmedSentences(ss) ==
    IF ss = << >> THEN << >>
    ELSE IF TrimSpace(Head(ss)) = << >> THEN TrimmedSentences(Tail(ss))
    ELSE <<TrimSpace(Head(ss))>> \o TrimmedSentences(Tail(ss))

\* the sentences of the chunks, one chunk after the other
RECURSIVE ChunkedSentences(_)
ChunkedSentences(cs) ==
    IF cs = << >> THEN << >>
    ELSE TrimmedSentences(SentencesOf(Head(cs))) \o ChunkedSentences(Tail(cs))

\* C36: the chunks of chunkDocument hold the non-empty trimmed sentences of
\* the content, each one whole and once, in their order; a sentence longer
\* than the threshold is a chunk by itself, no chunk is empty, and the chunk
\* indices are 0, 1, 2, ...
C36_SentencesPartitioned ==
    (resp.op = "chunkDocument" /\ resp.returned) =>
        /\ ChunkedSentences(resp.chunks) = TrimmedSentences(Split(resp.content))
        /\ \A k \in 1..Len(resp.chunks) :
             /\ resp.chunks[k].Content # << >>
             /\ resp.chunks[k].ChunkIndex = k - 1
             /\ (\E j \in 1..Len(SentencesOf(resp.chunks[k])) :
                    len(SentencesOf(resp.chunks[k])[j]) > ChunkLimit)
                   => Len(SentencesOf(resp.chunks[k])) = 1

\* a content that ends with a period was chunked: one chunk is a sentence
\* longer than the threshold, another one holds several sentences
C36_Witness ==
    /\ resp.op = "chunkDocument"
    /\ resp.returned
    /\ resp.content[Len(resp.content)] = DOT
    /\ \E k \in 1..Len(resp.chunks) : len(resp.chunks[k].Content) > ChunkLimit
                                        /\ Len(SentencesOf(resp.chunks[k])) = 1
    /\ \E k \in 1..Len(resp.chunks) : Len(SentencesOf(resp.chunks[k])) > 1


\* ------------------------------------------- claims on deletes of bare items
\* the queue items the delete call that returned was about
DeletedItems ==
    IF ret.op = "DeleteURL"
    THEN {i \in Ids : queue[i].url = ret.arg}
    ELSE {i \in Ids : ToString(i) = ret.arg}

\* C37: a delete of a queue item whose URL had no document when the call
\* began, and so no chunk, node or edge, returns nil and has marked the item
\* deleted: the DELETE statements that find no row are no error
C37_DeleteOfBareItemSucceeds ==
    (/\ pc[API] = "idle"
     /\ apiOp \in {"DeleteURL", "DeleteURLByID"}
     /\ ret.op = apiOp
     /\ DeletedItems # {}
     /\ oldDoc = 0)
        => /\ ret.err = nil
           /\ \A i \in DeletedItems : queue[i].status = "deleted"

\* a delete has returned nil for an item without a document that had failed
C37_Witness ==
    /\ pc[API] = "idle"
    /\ apiOp \in {"DeleteURL", "DeleteURLByID"}
    /\ ret.op = apiOp
    /\ ret.err = nil
    /\ oldDoc = 0
    /\ \E i \in DeletedItems : queue[i].status = "deleted" /\ queue[i].error # NULL


\* ------------------------------------------------ claims on relationships
\* the ids of the entity map
IdsOf(entityMap) == {entityMap[name] : name \in DOMAIN entityMap}

\* a thread is in the extraction pass of ExtractEntitiesAndRelations
Extracting(t) == pc[t] \in {"E952", "E980", "E1011"}

\* C38: the relationships extractRelationships makes have their source and
\* target id from the entity map of the pass, an edge is written with the ids
\* of the map of the pass that writes it, and a pass in which a match is
\* dropped for a name that the map lacks returns nil
C38_EndpointsFromEntityMap ==
    [][/\ \A t \in Inline :
            pc[t] = "E1011" =>
                LET relationships == extractRelationships(inl[t].content, inl[t].entityMap)
                IN  \A k \in 1..Len(relationships) :
                        /\ relationships[k].SourceID \in IdsOf(inl[t].entityMap)
                        /\ relationships[k].TargetID \in IdsOf(inl[t].entityMap)
       /\ \A e \in edges' \ edges :
            \E t \in Inline :
                /\ pc[t] = "E1011"
                /\ e.source_id \in IdsOf(inl[t].entityMap)
                /\ e.target_id \in IdsOf(inl[t].entityMap)
       /\ \A t \in Inline :
            (Extracting(t) /\ pc'[t] = "idle") => ret'.err = nil]_vars

\* the pass is at its last entity and the map lacks the person of the match
\* of the content: the node of the person could not be written
C38_Witness ==
    \E t \in Inline :
        /\ pc[t] \in {"E952", "E980"}
        /\ inl[t].i = Len(extractEntities(inl[t].content))
        /\ \E k \in 1..Len(worksAtMatches(inl[t].content)) :
               worksAtMatches(inl[t].content)[k].person \notin DOMAIN inl[t].entityMap


\* ----------------------------------------------- claims on ProcessDocument
\* C39: when ProcessDocument has returned nil, one document has the URL of
\* the request and the document has a chunk
C39_DocumentHasChunk ==
    (pc[Client] = "idle" /\ ret.op = "ProcessDocument" /\ ret.err = nil) =>
        /\ Cardinality(DocByURL(ret.arg)) = 1
        /\ ChunksOf(ret.arg) # {}


\* ------------------------------------------------ claims on the MCP handler
\* HandleRequest is over: it returned or it panicked
HandlerDone == resp.op = "HandleRequest" /\ resp.pc \in {"returned", "panicked"}

\* the request names a method, or a tool, that the handler does not know
UnknownMethodOrTool ==
    /\ resp.body.valid
    /\ \/ resp.body.method \notin Methods
       \/ /\ resp.body.method = "tools/call"
          /\ resp.body.params.kind = "object"
          /\ resp.body.params.name \notin Tools

\* C40: for every request body HandleRequest writes one response and calls
\* LogMCPRequest once; an unknown method or tool is answered with the error
\* code -32601 and a body that cannot be parsed with -32700, and the logged
\* entry holds the error of the response
C40_OneResponseOneLog ==
    HandlerDone =>
        /\ Len(resp.written) = 1
        /\ Len(resp.logged) = 1
        /\ UnknownMethodOrTool => resp.written[1].error.code = MethodNotFound
        /\ ~resp.body.valid => resp.written[1].error.code = ParseError
        /\ (UnknownMethodOrTool \/ ~resp.body.valid)
              => resp.logged[1].Error = Marshal(resp.written[1].error)

====
